---- MODULE Spec2Model ----
(***************************************************************************)
(* fsm-mcos: the LaTeX (TikZ) importer of the finite-state-machine editor, *)
(* the editor's import handler and the paired LaTeX exporter.              *)
(*                                                                         *)
(* Numbers.  Every coordinate, radius and length is an integer count of    *)
(* hundredths: a TikZ coordinate 30 is 3000, a canvas coordinate 300 is    *)
(* 30000.  Angles are integer degrees (the importer's radians are the same *)
(* angle in another unit).  Distances are compared through their squares,  *)
(* which orders them as Math.sqrt does.                                    *)
(*                                                                         *)
(* Text.  The pasted text is a sequence of lines.  A line is a record of   *)
(* its syntactic parts: the command it starts with (cmd), whether a        *)
(* [style] bracket follows the command (style), the shape after the first  *)
(* coordinate (circle, node, arc, path) and the numbers written in it.     *)
(* A label text is a sequence of one-character strings.                    *)
(***************************************************************************)
EXTENDS Integers, Sequences, FiniteSets, TLC

VARIABLES
    latexInput,     \* value of the import modal's textarea (a sequence of lines)
    importModal,    \* display style of the import modal: "block" or "none"
    importError,    \* message shown in the import modal ("" when hidden)
    nodes,          \* the editor's nodes
    links,          \* the editor's links
    selectedObject, \* the editor's selection: 0 (null), k for nodes[k], -k for links[k]
    circles,        \* ImportFromLaTeX._circles
    texts,          \* ImportFromLaTeX._texts
    lines,          \* ImportFromLaTeX._lines
    arcs,           \* ImportFromLaTeX._arcs
    fills,          \* ImportFromLaTeX._fills
    pc,             \* position of the running import
    i,              \* loop index of the running reconstructFSM loop
    nodePositions,  \* reconstructFSM's nodePositions
    result,         \* reconstructFSM's result {nodes, links}
    outcome,        \* how the last importFromLaTeX call ended
    exported,       \* the diagram drawn by the last saveAsLaTeX
    kept,           \* what a caller that keeps its importer has from the call before
    undoStack,      \* the keybind system's undoStack
    redoStack,      \* the keybind system's redoStack
    listed,         \* labels and adjacency of the last exportAdjacencyList
    currentLink,    \* the link being drawn with the mouse (NoLink when null)
    movingObject,   \* whether the mouse drags the selection
    originalClick,  \* where the mouse button went down
    simulationActive,   \* whether the editor is in simulation mode
    currentSimulation,  \* the simulation state (NoSimulation when null)
    simError            \* the errors shown by showSimulationError (none: << >>)

vars == <<latexInput, importModal, importError, nodes, links, selectedObject, circles, texts,
          lines, arcs, fills, pc, i, nodePositions, result, outcome, exported,
          kept, undoStack, redoStack, listed, currentLink, movingObject, originalClick,
          simulationActive, currentSimulation, simError>>

editorVars   == <<nodes, links, selectedObject>>
keybindVars  == <<undoStack, redoStack, listed>>
mouseVars    == <<currentLink, movingObject, originalClick>>
simVars      == <<simulationActive, currentSimulation, simError>>
importerVars == <<circles, texts, lines, arcs, fills>>

----------------------------------------------------------------------------
(* Units and program constants *)

Unit == 10 * 10                     \* one TikZ or canvas unit, in hundredths
Half == Unit \div 2                 \* the 0.5 of the radius tolerances

scale == 10                         \* this._scale, the inverse of the export scale 0.1
nodeRadius == 30 * Unit             \* var nodeRadius = 30
expectedRadius == nodeRadius \div scale                 \* nodeRadius * 0.1 = 3.0
acceptRadius == (nodeRadius - 6 * Unit) \div scale      \* (nodeRadius - 6) * 0.1 = 2.4
selfLoopRadius == (3 * nodeRadius) \div (4 * scale)     \* 0.75 * nodeRadius * 0.1 = 2.25

Abs(x) == IF x < 0 THEN -x ELSE x
Sq(x) == x * x
Min(a, b) == IF a < b THEN a ELSE b

\* n / d rounded to the nearest integer (d > 0), as toFixed and Math.round do
Round(n, d) == (2 * n + d) \div (2 * d)

----------------------------------------------------------------------------
(* Trigonometry on integer degrees, values in ten-thousandths *)

Trig == 100 * 100

CosTab == <<
     10000, 9998, 9994, 9986, 9976, 9962, 9945, 9925, 9903, 9877, 9848, 9816, 9781,
     9744, 9703, 9659, 9613, 9563, 9511, 9455, 9397, 9336, 9272, 9205, 9135, 9063,
     8988, 8910, 8829, 8746, 8660, 8572, 8480, 8387, 8290, 8192, 8090, 7986, 7880,
     7771, 7660, 7547, 7431, 7314, 7193, 7071, 6947, 6820, 6691, 6561, 6428, 6293,
     6157, 6018, 5878, 5736, 5592, 5446, 5299, 5150, 5000, 4848, 4695, 4540, 4384,
     4226, 4067, 3907, 3746, 3584, 3420, 3256, 3090, 2924, 2756, 2588, 2419, 2250,
     2079, 1908, 1736, 1564, 1392, 1219, 1045, 872, 698, 523, 349, 175, 0 >>

\* Math.cos and Math.sin of an angle of a degrees, times Trig
Cos(a) ==
    LET m == a % 360
    IN  IF m <= 90 THEN CosTab[m + 1]
        ELSE IF m <= 180 THEN -CosTab[180 - m + 1]
        ELSE IF m <= 270 THEN -CosTab[m - 180 + 1]
        ELSE CosTab[360 - m + 1]

Sin(a) == Cos(a - 90)

\* tan of 0.5, 1.5, ..., 44.5 degrees, times Trig
TanTab == <<
     87, 262, 437, 612, 787, 963, 1139, 1317, 1495, 1673, 1853, 2035, 2217, 2401, 2586,
     2773, 2962, 3153, 3346, 3541, 3739, 3939, 4142, 4348, 4557, 4770, 4986, 5206, 5430,
     5658, 5890, 6128, 6371, 6619, 6873, 7133, 7400, 7673, 7954, 8243, 8541, 8847, 9163,
     9490, 9827 >>

\* the angle in 0..45 degrees nearest to the one whose tangent is t / Trig
Octant(t) == Cardinality({a \in DOMAIN TanTab : TanTab[a] <= t})

\* Math.atan2(dy, dx) to the nearest degree, in -180..180
Atan2(dy, dx) ==
    LET ax == Abs(dx)
        ay == Abs(dy)
        acute == IF ax = 0 /\ ay = 0 THEN 0
                 ELSE IF ax >= ay THEN Octant((ay * Trig) \div ax)
                 ELSE 90 - Octant((ax * Trig) \div ay)
    IN  IF dy >= 0 THEN (IF dx >= 0 THEN acute ELSE 180 - acute)
        ELSE (IF dx >= 0 THEN -acute ELSE acute - 180)

----------------------------------------------------------------------------
(* Lines of text *)

NoPts == << >>

Line(cmd, style, shape, x, y, r, a0, a1, pos, text, pts) ==
    [cmd |-> cmd, style |-> style, shape |-> shape, x |-> x, y |-> y, r |-> r,
     a0 |-> a0, a1 |-> a1, pos |-> pos, text |-> text, pts |-> pts, rest |-> << >>]

BeginLine == Line("begin", FALSE, "", 0, 0, 0, 0, 0, "", << >>, NoPts)  \* \begin{tikzpicture}[scale=0.2]
EndLine   == Line("end", FALSE, "", 0, 0, 0, 0, 0, "", << >>, NoPts)    \* \end{tikzpicture}
OtherLine == Line("other", FALSE, "", 0, 0, 0, 0, 0, "", << >>, NoPts)  \* \tikzstyle{...}, \begin{center}, ...

\* \draw [black] (x,y) circle (r);
DrawCircle(x, y, r) == Line("draw", TRUE, "circle", x, y, r, 0, 0, "", << >>, NoPts)
\* \draw (x,y) node [pos] {$text$};       (pos = "" when there is no bracket)
DrawNode(x, y, pos, text) == Line("draw", FALSE, "node", x, y, 0, 0, 0, pos, text, NoPts)
\* \draw [black] (x,y) arc (a0:a1:r);
DrawArc(x, y, a0, a1, r) == Line("draw", TRUE, "arc", x, y, r, a0, a1, "", << >>, NoPts)
\* \draw [black] (x1,y1) -- (x2,y2) ...;
DrawPath(pts) == Line("draw", TRUE, "path", 0, 0, 0, 0, 0, "", << >>, pts)
\* \fill [black] (x1,y1) -- (x2,y2) -- (x3,y3);
FillPath(pts) == Line("fill", TRUE, "path", 0, 0, 0, 0, 0, "", << >>, pts)

Pt(x, y) == [x |-> x, y |-> y]

\* two \draw statements written on one line of the text
OnOneLine(first, second) == [first EXCEPT !.rest = <<second>>]

----------------------------------------------------------------------------
(* ImportFromLaTeX: parsing *)

NoPrimitives == [circles |-> << >>, texts |-> << >>, lines |-> << >>,
                 arcs |-> << >>, fills |-> << >>]

\* text.replace(/\\mbox\{\s*\}/g, ' ')
CleanText(text) == [k \in DOMAIN text |-> IF text[k] = "\\mbox{ }" THEN " " ELSE text[k]]

\* the statements on a line, and the first of them that a pattern matches
\* (0 when line.match(pattern) is null)
Statements(line) == <<line>> \o line.rest
FirstMatch(line, Pattern(_)) ==
    LET found == {k \in DOMAIN Statements(line) : Pattern(Statements(line)[k])}
    IN  IF found = {} THEN 0 ELSE CHOOSE k \in found : \A m \in found : k <= m

\* The patterns of _parseDrawCommand.  The circle, arc and path patterns need
\* the [style] bracket, the text pattern must not have it and needs at least
\* one character between {$ and $}, the path pattern needs a point.
CirclePattern(stmt) == stmt.cmd = "draw" /\ stmt.style /\ stmt.shape = "circle"
NodePattern(stmt) == stmt.cmd = "draw" /\ ~stmt.style /\ stmt.shape = "node" /\ Len(stmt.text) > 0
ArcPattern(stmt) == stmt.cmd = "draw" /\ stmt.style /\ stmt.shape = "arc"
LinePattern(stmt) == stmt.cmd = "draw" /\ stmt.style /\ stmt.shape = "path" /\ Len(stmt.pts) >= 1

CirclePrimitive(m) == [x |-> m.x, y |-> m.y, radius |-> m.r]
TextPrimitive(m) ==
    [x |-> m.x, y |-> m.y, position |-> m.pos, text |-> CleanText(m.text), assigned |-> FALSE]
ArcPrimitive(m) ==
    [startX |-> m.x, startY |-> m.y, startAngle |-> m.a0, endAngle |-> m.a1, radius |-> m.r,
     centerX |-> m.x - Round(m.r * Cos(m.a0), Trig),
     centerY |-> m.y - Round(m.r * Sin(m.a0), Trig),
     assigned |-> FALSE]
LinePrimitive(m) == [points |-> m.pts, assigned |-> FALSE]

\* a variant of the function below that goes on to the next pattern after a match
ParseDrawCommandNoReturn(prims, line) ==
    LET circleMatch == FirstMatch(line, CirclePattern)
        nodeMatch == FirstMatch(line, NodePattern)
        arcMatch == FirstMatch(line, ArcPattern)
        lineMatch == FirstMatch(line, LinePattern)
    IN  [circles |-> IF circleMatch # 0
                     THEN Append(prims.circles, CirclePrimitive(Statements(line)[circleMatch]))
                     ELSE prims.circles,
         texts |-> IF nodeMatch # 0
                   THEN Append(prims.texts, TextPrimitive(Statements(line)[nodeMatch]))
                   ELSE prims.texts,
         arcs |-> IF arcMatch # 0
                  THEN Append(prims.arcs, ArcPrimitive(Statements(line)[arcMatch]))
                  ELSE prims.arcs,
         lines |-> IF lineMatch # 0 /\ Len(Statements(line)[lineMatch].pts) >= 2
                   THEN Append(prims.lines, LinePrimitive(Statements(line)[lineMatch]))
                   ELSE prims.lines,
         fills |-> prims.fills]

\* _parseDrawCommand: the first pattern that matches decides, in the order
\* circle, text node, arc, path
ParseDrawCommand(prims, line) ==
    LET circleMatch == FirstMatch(line, CirclePattern)
        nodeMatch == FirstMatch(line, NodePattern)
        arcMatch == FirstMatch(line, ArcPattern)
        lineMatch == FirstMatch(line, LinePattern)
    IN  IF circleMatch # 0
        THEN [prims EXCEPT !.circles = Append(@, CirclePrimitive(Statements(line)[circleMatch]))]
        ELSE IF nodeMatch # 0
        THEN [prims EXCEPT !.texts = Append(@, TextPrimitive(Statements(line)[nodeMatch]))]
        ELSE IF arcMatch # 0
        THEN [prims EXCEPT !.arcs = Append(@, ArcPrimitive(Statements(line)[arcMatch]))]
        ELSE IF lineMatch # 0 /\ Len(Statements(line)[lineMatch].pts) >= 2
        THEN [prims EXCEPT !.lines = Append(@, LinePrimitive(Statements(line)[lineMatch]))]
        ELSE prims

ParseFillCommand(prims, line) ==
    IF line.style /\ line.shape = "path" /\ Len(line.pts) >= 3
    THEN [prims EXCEPT !.fills = Append(@, [points |-> line.pts, assigned |-> FALSE])]
    ELSE prims

\* a variant of the match below that takes the first end line wherever it is
TikzMatchAnyEnd(text) ==
    LET begins == {k \in DOMAIN text : text[k].cmd = "begin"}
        ends == {k \in DOMAIN text : text[k].cmd = "end"}
    IN  IF begins = {} \/ ends = {} THEN <<0, 0>>
        ELSE <<CHOOSE k \in begins : \A m \in begins : k <= m,
               CHOOSE k \in ends : \A m \in ends : k <= m>>

\* latexString.match(/\\begin\{tikzpicture\}[\s\S]*?\\end\{tikzpicture\}/): the
\* first begin line and the first end line after it, <<0, 0>> when there is none
TikzMatch(text) ==
    LET begins == {k \in DOMAIN text : text[k].cmd = "begin"}
    IN  IF begins = {} THEN <<0, 0>>
        ELSE LET b == CHOOSE k \in begins : \A m \in begins : k <= m
                 ends == {k \in DOMAIN text : k > b /\ text[k].cmd = "end"}
             IN  IF ends = {} THEN <<0, 0>>
                 ELSE <<b, CHOOSE k \in ends : \A m \in ends : k <= m>>

RECURSIVE ParseLines(_, _, _, _)
ParseLines(text, k, last, prims) ==
    IF k > last THEN prims
    ELSE ParseLines(text, k + 1, last,
            IF text[k].cmd = "draw" THEN ParseDrawCommand(prims, text[k])
            ELSE IF text[k].cmd = "fill" THEN ParseFillCommand(prims, text[k])
            ELSE prims)

\* a variant of parse below that also throws when the block holds no primitive
ParseNonEmpty(text) ==
    LET m == TikzMatch(text)
        prims == ParseLines(text, m[1], m[2], NoPrimitives)
    IN  IF m[1] = 0 \/ prims = NoPrimitives THEN [thrown |-> TRUE, prims |-> NoPrimitives]
        ELSE [thrown |-> FALSE, prims |-> prims]

\* a variant of the reset below that leaves the collections as they are
ResetNothing(prims) == prims

\* the first statements of parse: the five collections are set to []
Reset(prims) == NoPrimitives

\* ImportFromLaTeX.prototype.parse on an importer whose collections are prims:
\* the collections after the call, or "throw" (after the reset)
ParseOn(prims, text) ==
    LET m == TikzMatch(text)
    IN  IF m[1] = 0 THEN [thrown |-> TRUE, prims |-> Reset(prims)]
        ELSE [thrown |-> FALSE, prims |-> ParseLines(text, m[1], m[2], Reset(prims))]

\* parse on a new ImportFromLaTeX(), whose constructor has set the collections to []
Parse(text) == ParseOn(NoPrimitives, text)

----------------------------------------------------------------------------
(* Graph entities *)

\* new Node(x, y)
Node(x, y) == [x |-> x, y |-> y, isAcceptState |-> FALSE, text |-> << >>]

NoLink == [type |-> "", node |-> 0, nodeA |-> 0, nodeB |-> 0, text |-> << >>,
           anchorAngle |-> 0, deltaX |-> 0, deltaY |-> 0,
           parallelPart |-> 0, perpendicularPart |-> 0, lineAngleAdjust |-> 0]

\* new Link(a, b): parallelPart 0.5 is Half hundredths
Link(a, b) == [NoLink EXCEPT !.type = "Link", !.nodeA = a, !.nodeB = b,
                             !.parallelPart = Half]
\* new SelfLink(node, null)
SelfLink(node) == [NoLink EXCEPT !.type = "SelfLink", !.node = node]
\* new StartLink(node, null)
StartLink(node) == [NoLink EXCEPT !.type = "StartLink", !.node = node]

EmptyGraph == [nodes |-> << >>, links |-> << >>]

\* graph[name] as JavaScript reads it: undefined for a property the object lacks
Property(graph, name) == IF name \in DOMAIN graph THEN graph[name] ELSE "undefined"

\* a caller that has not called its importer a second time
NoKept == [call |-> "", text |-> << >>, graph |-> EmptyGraph]

\* no adjacency list has been exported
NoList == [labels |-> << >>, adjacency |-> << >>]

\* no errorMessage; the message "No transition for 'symbol' from state ..."
\* is kept as its symbol and the index of its state
NoMessage == [symbol |-> "", state |-> 0]

\* currentSimulation = null
NoSimulation ==
    [exists |-> FALSE, inputString |-> << >>, currentPosition |-> 0, currentStates |-> << >>,
     paths |-> << >>, isComplete |-> FALSE, result |-> "", errorMessage |-> NoMessage,
     transitionTable |-> << >>, activeLinks |-> << >>]

----------------------------------------------------------------------------
(* ImportFromLaTeX: helpers of reconstructFSM *)

\* a variant of the mapping below that keeps the sign of y
TransformCoordUnflipped(x, y) == [x |-> x * scale, y |-> y * scale]

TransformCoord(x, y) == [x |-> x * scale, y |-> (-y) * scale]

\* a variant of the search below that also takes an entry exactly 1 unit away
FindNodeUpToUnit(nps, x, y) ==
    LET hits == {k \in DOMAIN nps : Abs(nps[k].x - x) <= Unit /\ Abs(nps[k].y - y) <= Unit}
    IN  IF hits = {} THEN 0 ELSE CHOOSE k \in hits : \A m \in hits : k <= m

\* a variant of the search below that measures the distance along a straight line
FindNodeWithinUnit(nps, x, y) ==
    LET hits == {k \in DOMAIN nps :
                    /\ Abs(nps[k].x - x) < Unit /\ Abs(nps[k].y - y) < Unit
                    /\ Sq(nps[k].x - x) + Sq(nps[k].y - y) < Sq(Unit)}
    IN  IF hits = {} THEN 0 ELSE CHOOSE k \in hits : \A m \in hits : k <= m

\* a variant of the search below that takes only an entry at the very place
FindNodeExactly(nps, x, y) ==
    LET hits == {k \in DOMAIN nps : nps[k].x = x /\ nps[k].y = y}
    IN  IF hits = {} THEN 0 ELSE CHOOSE k \in hits : \A m \in hits : k <= m

\* the first entry within 1 unit in x and in y; 0 is null
FindNodeAtPosition(nps, x, y) ==
    LET hits == {k \in DOMAIN nps : Abs(nps[k].x - x) < Unit /\ Abs(nps[k].y - y) < Unit}
    IN  IF hits = {} THEN 0 ELSE CHOOSE k \in hits : \A m \in hits : k <= m

\* squared distance, once both offsets are known to be small
Dist2(ax, ay, bx, by) == Sq(ax - bx) + Sq(ay - by)
\* Math.sqrt(dx*dx + dy*dy) < t
Closer(ax, ay, bx, by, t) ==
    Abs(ax - bx) < t /\ Abs(ay - by) < t /\ Dist2(ax, ay, bx, by) < Sq(t)

\* a variant of the search below that takes the first entry nearer than threshold
FindFirstNode(nps, x, y, threshold) ==
    LET near == {k \in DOMAIN nps : Closer(nps[k].x, nps[k].y, x, y, threshold)}
    IN  IF near = {} THEN 0 ELSE CHOOSE k \in near : \A m \in near : k <= m

\* the entry nearest to (x, y) among those nearer than threshold, the first of
\* equally near ones; 0 is null
FindNearestNode(nps, x, y, threshold) ==
    LET near == {k \in DOMAIN nps : Closer(nps[k].x, nps[k].y, x, y, threshold)}
        d(k) == Dist2(nps[k].x, nps[k].y, x, y)
    IN  IF near = {} THEN 0
        ELSE CHOOSE k \in near :
                \A m \in near : d(k) < d(m) \/ (d(k) = d(m) /\ k <= m)

----------------------------------------------------------------------------
(* reconstructFSM, one loop iteration at a time *)

\* a variant of the outer-ring test below with a tolerance of 1
IsOuterRingWide(circle) == Abs(circle.radius - expectedRadius) < Unit
\* a variant of the inner-ring test below that compares with the canvas radius
IsInnerRingUnscaled(circle) == Abs(circle.radius - (nodeRadius - 6 * Unit)) < Half

\* Math.abs(circle.radius - expectedRadius) < 0.5
IsOuterRing(circle) == Abs(circle.radius - expectedRadius) < Half
\* Math.abs(circle.radius - acceptRadius) < 0.5
IsInnerRing(circle) == Abs(circle.radius - acceptRadius) < Half

\* a variant of the entry below that refers to a node other than the pushed one
NodeEntryOther(graph, pos) == [node |-> Len(graph.nodes) + 2, x |-> pos.x, y |-> pos.y]

\* { node: node, x: pos.x, y: pos.y } for the node about to be pushed to graph.nodes
NodeEntry(graph, pos) == [node |-> Len(graph.nodes) + 1, x |-> pos.x, y |-> pos.y]

\* Step 1: identify nodes from circles
Step1 ==
    /\ pc = "step1" /\ i <= Len(circles)
    /\ LET circle == circles[i]
           pos == TransformCoord(circle.x, circle.y)
           existingNode == FindNodeAtPosition(nodePositions, pos.x, pos.y)
       IN  IF IsOuterRing(circle)
           THEN IF existingNode = 0
                THEN /\ result' = [result EXCEPT !.nodes = Append(@, Node(pos.x, pos.y))]
                     /\ nodePositions' = Append(nodePositions, NodeEntry(result, pos))
                ELSE UNCHANGED <<result, nodePositions>>
           ELSE IF IsInnerRing(circle) /\ existingNode # 0
           THEN /\ result' = [result EXCEPT
                        !.nodes[nodePositions[existingNode].node].isAcceptState = TRUE]
                /\ UNCHANGED nodePositions
           ELSE UNCHANGED <<result, nodePositions>>
    /\ i' = i + 1
    /\ UNCHANGED <<latexInput, importModal, importError, editorVars, importerVars, pc, outcome, exported, kept, keybindVars, mouseVars, simVars>>

\* a variant of the step below that does not look at the position hint
Step2AnyText ==
    /\ pc = "step2" /\ i <= Len(texts)
    /\ LET text == texts[i]
           pos == TransformCoord(text.x, text.y)
           nearestNode == FindNearestNode(nodePositions, pos.x, pos.y, (3 * nodeRadius) \div 2)
       IN  IF nearestNode # 0
           THEN /\ result' = [result EXCEPT
                        !.nodes[nodePositions[nearestNode].node].text = text.text]
                /\ texts' = [texts EXCEPT ![i].assigned = TRUE]
           ELSE UNCHANGED <<result, texts>>
    /\ i' = i + 1
    /\ UNCHANGED <<latexInput, importModal, importError, editorVars, circles, lines, arcs, fills,
                   pc, nodePositions, outcome, exported, kept, keybindVars, mouseVars, simVars>>

\* Step 2: assign text labels to nodes
Step2 ==
    /\ pc = "step2" /\ i <= Len(texts)
    /\ LET text == texts[i]
           pos == TransformCoord(text.x, text.y)
           nearestNode == FindNearestNode(nodePositions, pos.x, pos.y, (3 * nodeRadius) \div 2)
       IN  IF nearestNode # 0 /\ text.position = ""
           THEN /\ result' = [result EXCEPT
                        !.nodes[nodePositions[nearestNode].node].text = text.text]
                /\ texts' = [texts EXCEPT ![i].assigned = TRUE]
           ELSE UNCHANGED <<result, texts>>
    /\ i' = i + 1
    /\ UNCHANGED <<latexInput, importModal, importError, editorVars, circles, lines, arcs, fills,
                   pc, nodePositions, outcome, exported, kept, keybindVars, mouseVars, simVars>>

\* Math.sqrt of a non-negative integer below 46000 * 46000, rounded down: the
\* two hundreds in which the root lies, then the root among them
ISqrt(n) ==
    LET h == CHOOSE k \in 0..229 : Sq(200 * k) <= n /\ n < Sq(200 * (k + 1))
    IN  CHOOSE r \in (200 * h)..(200 * h + 199) : Sq(r) <= n /\ n < Sq(r + 1)

\* a variant of the test below with a tolerance of 10
SelfLoopOffsetNarrow(dx, dy) ==
    LET lo == (3 * nodeRadius) \div 2 - 10 * Unit
        hi == (3 * nodeRadius) \div 2 + 10 * Unit
    IN  /\ Abs(dx) < hi /\ Abs(dy) < hi
        /\ Sq(dx) + Sq(dy) > Sq(lo)
        /\ Sq(dx) + Sq(dy) < Sq(hi)

\* Math.abs(dist - 1.5 * nodeRadius) < 20 for dist = sqrt(dx*dx + dy*dy)
SelfLoopOffset(dx, dy) ==
    LET lo == (3 * nodeRadius) \div 2 - 20 * Unit
        hi == (3 * nodeRadius) \div 2 + 20 * Unit
    IN  /\ Abs(dx) < hi /\ Abs(dy) < hi
        /\ Sq(dx) + Sq(dy) > Sq(lo)
        /\ Sq(dx) + Sq(dy) < Sq(hi)

\* Step 3: identify self-loops from arcs
Step3 ==
    /\ pc = "step3" /\ i <= Len(arcs)
    /\ LET arc == arcs[i]
           centerPos == TransformCoord(arc.centerX, arc.centerY)
           owners == {j \in DOMAIN nodePositions :
                        SelfLoopOffset(centerPos.x - nodePositions[j].x,
                                       centerPos.y - nodePositions[j].y)}
       IN  IF Abs(arc.radius - selfLoopRadius) < Half /\ owners # {}
           THEN LET j == CHOOSE k \in owners : \A m \in owners : k <= m
                    np == nodePositions[j]
                    selfLink == [SelfLink(np.node) EXCEPT
                                    !.anchorAngle = Atan2(centerPos.y - np.y, centerPos.x - np.x)]
                IN  /\ result' = [result EXCEPT !.links = Append(@, selfLink)]
                    /\ arcs' = [arcs EXCEPT ![i].assigned = TRUE]
           ELSE UNCHANGED <<result, arcs>>
    /\ i' = i + 1
    /\ UNCHANGED <<latexInput, importModal, importError, editorVars, circles, texts, lines, fills,
                   pc, nodePositions, outcome, exported, kept, keybindVars, mouseVars, simVars>>

\* a variant of the step below that takes the first point of a line for the
\* free end of a start link, whichever point found the node
Step4FirstPointFree ==
    /\ pc = "step4" /\ i <= Len(lines)
    /\ LET line == lines[i]
       IN  IF Len(line.points) = 2
           THEN LET start == TransformCoord(line.points[1].x, line.points[1].y)
                    end == TransformCoord(line.points[2].x, line.points[2].y)
                    startNode == FindNearestNode(nodePositions, start.x, start.y, nodeRadius + 10 * Unit)
                    endNode == FindNearestNode(nodePositions, end.x, end.y, nodeRadius + 10 * Unit)
                    found == IF endNode # 0 THEN endNode ELSE startNode
                IN  IF startNode # 0 /\ endNode # 0 /\ startNode # endNode
                    THEN /\ result' = [result EXCEPT !.links = Append(@,
                                Link(nodePositions[startNode].node, nodePositions[endNode].node))]
                         /\ lines' = [lines EXCEPT ![i].assigned = TRUE]
                    ELSE IF (endNode # 0) # (startNode # 0)
                    THEN /\ result' = [result EXCEPT !.links = Append(@,
                                [StartLink(nodePositions[found].node) EXCEPT
                                    !.deltaX = start.x - nodePositions[found].x,
                                    !.deltaY = start.y - nodePositions[found].y])]
                         /\ lines' = [lines EXCEPT ![i].assigned = TRUE]
                    ELSE UNCHANGED <<result, lines>>
           ELSE UNCHANGED <<result, lines>>
    /\ i' = i + 1
    /\ UNCHANGED <<latexInput, importModal, importError, editorVars, circles, texts, arcs, fills,
                   pc, nodePositions, outcome, exported, kept, keybindVars, mouseVars, simVars>>

\* a variant of the step below that adds a start link only to a graph without one
Step4OneStart ==
    /\ pc = "step4" /\ i <= Len(lines)
    /\ LET line == lines[i]
           none == \A k \in DOMAIN result.links : result.links[k].type # "StartLink"
       IN  IF Len(line.points) = 2
           THEN LET start == TransformCoord(line.points[1].x, line.points[1].y)
                    end == TransformCoord(line.points[2].x, line.points[2].y)
                    startNode == FindNearestNode(nodePositions, start.x, start.y, nodeRadius + 10 * Unit)
                    endNode == FindNearestNode(nodePositions, end.x, end.y, nodeRadius + 10 * Unit)
                IN  IF startNode # 0 /\ endNode # 0 /\ startNode # endNode
                    THEN /\ result' = [result EXCEPT !.links = Append(@,
                                Link(nodePositions[startNode].node, nodePositions[endNode].node))]
                         /\ lines' = [lines EXCEPT ![i].assigned = TRUE]
                    ELSE IF endNode # 0 /\ startNode = 0 /\ none
                    THEN /\ result' = [result EXCEPT !.links = Append(@,
                                [StartLink(nodePositions[endNode].node) EXCEPT
                                    !.deltaX = start.x - nodePositions[endNode].x,
                                    !.deltaY = start.y - nodePositions[endNode].y])]
                         /\ lines' = [lines EXCEPT ![i].assigned = TRUE]
                    ELSE IF startNode # 0 /\ endNode = 0 /\ none
                    THEN /\ result' = [result EXCEPT !.links = Append(@,
                                [StartLink(nodePositions[startNode].node) EXCEPT
                                    !.deltaX = end.x - nodePositions[startNode].x,
                                    !.deltaY = end.y - nodePositions[startNode].y])]
                         /\ lines' = [lines EXCEPT ![i].assigned = TRUE]
                    ELSE UNCHANGED <<result, lines>>
           ELSE UNCHANGED <<result, lines>>
    /\ i' = i + 1
    /\ UNCHANGED <<latexInput, importModal, importError, editorVars, circles, texts, arcs, fills,
                   pc, nodePositions, outcome, exported, kept, keybindVars, mouseVars, simVars>>

\* Step 4: identify regular links and start links from lines
Step4 ==
    /\ pc = "step4" /\ i <= Len(lines)
    /\ LET line == lines[i]
       IN  IF Len(line.points) = 2
           THEN LET start == TransformCoord(line.points[1].x, line.points[1].y)
                    end == TransformCoord(line.points[2].x, line.points[2].y)
                    startNode == FindNearestNode(nodePositions, start.x, start.y, nodeRadius + 10 * Unit)
                    endNode == FindNearestNode(nodePositions, end.x, end.y, nodeRadius + 10 * Unit)
                IN  IF startNode # 0 /\ endNode # 0 /\ startNode # endNode
                    THEN /\ result' = [result EXCEPT !.links = Append(@,
                                Link(nodePositions[startNode].node, nodePositions[endNode].node))]
                         /\ lines' = [lines EXCEPT ![i].assigned = TRUE]
                    ELSE IF endNode # 0 /\ startNode = 0
                    THEN /\ result' = [result EXCEPT !.links = Append(@,
                                [StartLink(nodePositions[endNode].node) EXCEPT
                                    !.deltaX = start.x - nodePositions[endNode].x,
                                    !.deltaY = start.y - nodePositions[endNode].y])]
                         /\ lines' = [lines EXCEPT ![i].assigned = TRUE]
                    ELSE IF startNode # 0 /\ endNode = 0
                    THEN /\ result' = [result EXCEPT !.links = Append(@,
                                [StartLink(nodePositions[startNode].node) EXCEPT
                                    !.deltaX = end.x - nodePositions[startNode].x,
                                    !.deltaY = end.y - nodePositions[startNode].y])]
                         /\ lines' = [lines EXCEPT ![i].assigned = TRUE]
                    ELSE UNCHANGED <<result, lines>>
           ELSE UNCHANGED <<result, lines>>
    /\ i' = i + 1
    /\ UNCHANGED <<latexInput, importModal, importError, editorVars, circles, texts, arcs, fills,
                   pc, nodePositions, outcome, exported, kept, keybindVars, mouseVars, simVars>>

\* a variant of the link below that measures the arc's middle on the other side
CurvedLinkMirrored(arc, a, b) ==
    LET midAngle == (arc.startAngle + arc.endAngle) \div 2
        arcMidPos == TransformCoord(arc.centerX + Round(arc.radius * Cos(midAngle), Trig),
                                    arc.centerY + Round(arc.radius * Sin(midAngle), Trig))
        dx == b.x - a.x
        dy == b.y - a.y
        length == ISqrt(Sq(dx) + Sq(dy))
    IN  IF length > 0
        THEN [Link(a.node, b.node) EXCEPT
                !.perpendicularPart =
                    Round(dy * (arcMidPos.x - a.x) - dx * (arcMidPos.y - a.y), length)]
        ELSE Link(a.node, b.node)

\* the curved link of Step 5 for an arc whose ends are at the entries a and b
CurvedLink(arc, a, b) ==
    LET midAngle == (arc.startAngle + arc.endAngle) \div 2
        arcMidPos == TransformCoord(arc.centerX + Round(arc.radius * Cos(midAngle), Trig),
                                    arc.centerY + Round(arc.radius * Sin(midAngle), Trig))
        dx == b.x - a.x
        dy == b.y - a.y
        length == ISqrt(Sq(dx) + Sq(dy))
    IN  IF length > 0
        THEN [Link(a.node, b.node) EXCEPT
                !.perpendicularPart =
                    Round(dx * (arcMidPos.y - a.y) - dy * (arcMidPos.x - a.x), length)]
        ELSE Link(a.node, b.node)

\* a variant of the step below that also looks at the arcs Step 3 has taken
Step5AnyArc ==
    /\ pc = "step5" /\ i <= Len(arcs)
    /\ LET arc == arcs[i]
           endX == arc.centerX + Round(arc.radius * Cos(arc.endAngle), Trig)
           endY == arc.centerY + Round(arc.radius * Sin(arc.endAngle), Trig)
           startPos == TransformCoord(arc.startX, arc.startY)
           endPos == TransformCoord(endX, endY)
           arcStartNode == FindNearestNode(nodePositions, startPos.x, startPos.y, nodeRadius + 15 * Unit)
           arcEndNode == FindNearestNode(nodePositions, endPos.x, endPos.y, nodeRadius + 15 * Unit)
       IN  IF arcStartNode # 0 /\ arcEndNode # 0 /\ arcStartNode # arcEndNode
           THEN /\ result' = [result EXCEPT !.links = Append(@,
                        CurvedLink(arc, nodePositions[arcStartNode], nodePositions[arcEndNode]))]
                /\ arcs' = [arcs EXCEPT ![i].assigned = TRUE]
           ELSE UNCHANGED <<result, arcs>>
    /\ i' = i + 1
    /\ UNCHANGED <<latexInput, importModal, importError, editorVars, circles, texts, lines, fills,
                   pc, nodePositions, outcome, exported, kept, keybindVars, mouseVars, simVars>>

\* a variant of the step below that does not compare the two nodes found
Step5SameNode ==
    /\ pc = "step5" /\ i <= Len(arcs)
    /\ LET arc == arcs[i]
           endX == arc.centerX + Round(arc.radius * Cos(arc.endAngle), Trig)
           endY == arc.centerY + Round(arc.radius * Sin(arc.endAngle), Trig)
           startPos == TransformCoord(arc.startX, arc.startY)
           endPos == TransformCoord(endX, endY)
           arcStartNode == FindNearestNode(nodePositions, startPos.x, startPos.y, nodeRadius + 15 * Unit)
           arcEndNode == FindNearestNode(nodePositions, endPos.x, endPos.y, nodeRadius + 15 * Unit)
       IN  IF ~arc.assigned /\ arcStartNode # 0 /\ arcEndNode # 0
           THEN /\ result' = [result EXCEPT !.links = Append(@,
                        CurvedLink(arc, nodePositions[arcStartNode], nodePositions[arcEndNode]))]
                /\ arcs' = [arcs EXCEPT ![i].assigned = TRUE]
           ELSE UNCHANGED <<result, arcs>>
    /\ i' = i + 1
    /\ UNCHANGED <<latexInput, importModal, importError, editorVars, circles, texts, lines, fills,
                   pc, nodePositions, outcome, exported, kept, keybindVars, mouseVars, simVars>>

\* Step 5: identify curved links from the remaining arcs
Step5 ==
    /\ pc = "step5" /\ i <= Len(arcs)
    /\ LET arc == arcs[i]
           endX == arc.centerX + Round(arc.radius * Cos(arc.endAngle), Trig)
           endY == arc.centerY + Round(arc.radius * Sin(arc.endAngle), Trig)
           startPos == TransformCoord(arc.startX, arc.startY)
           endPos == TransformCoord(endX, endY)
           arcStartNode == FindNearestNode(nodePositions, startPos.x, startPos.y, nodeRadius + 15 * Unit)
           arcEndNode == FindNearestNode(nodePositions, endPos.x, endPos.y, nodeRadius + 15 * Unit)
       IN  IF ~arc.assigned /\ arcStartNode # 0 /\ arcEndNode # 0 /\ arcStartNode # arcEndNode
           THEN /\ result' = [result EXCEPT !.links = Append(@,
                        CurvedLink(arc, nodePositions[arcStartNode], nodePositions[arcEndNode]))]
                /\ arcs' = [arcs EXCEPT ![i].assigned = TRUE]
           ELSE UNCHANGED <<result, arcs>>
    /\ i' = i + 1
    /\ UNCHANGED <<latexInput, importModal, importError, editorVars, circles, texts, lines, fills,
                   pc, nodePositions, outcome, exported, kept, keybindVars, mouseVars, simVars>>

\* _getLinkMidpoint: where a link's label is expected
GetLinkMidpoint(graph, link) ==
    IF link.type = "SelfLink"
    THEN LET circleX == graph.nodes[link.node].x + Round(((3 * nodeRadius) \div 2) * Cos(link.anchorAngle), Trig)
             circleY == graph.nodes[link.node].y + Round(((3 * nodeRadius) \div 2) * Sin(link.anchorAngle), Trig)
         IN  [x |-> circleX + Round(((3 * nodeRadius) \div 4) * Cos(link.anchorAngle), Trig),
              y |-> circleY + Round(((3 * nodeRadius) \div 4) * Sin(link.anchorAngle), Trig)]
    ELSE IF link.type = "StartLink"
    THEN [x |-> graph.nodes[link.node].x + link.deltaX,
          y |-> graph.nodes[link.node].y + link.deltaY]
    ELSE [x |-> (graph.nodes[link.nodeA].x + graph.nodes[link.nodeB].x) \div 2,
          y |-> (graph.nodes[link.nodeA].y + graph.nodes[link.nodeB].y) \div 2]

\* the link of Step 6 nearest to pos among those nearer than 80, the first of
\* equally near ones; 0 is null
NearestLink(graph, pos) ==
    LET mid(j) == GetLinkMidpoint(graph, graph.links[j])
        near == {j \in DOMAIN graph.links :
                    Closer(pos.x, pos.y, mid(j).x, mid(j).y, 80 * Unit)}
        d(j) == Dist2(pos.x, pos.y, mid(j).x, mid(j).y)
    IN  IF near = {} THEN 0
        ELSE CHOOSE j \in near : \A m \in near : d(j) < d(m) \/ (d(j) = d(m) /\ j <= m)

\* a variant of the step below that gives a text without a link to the nearest node
Step6OrNode ==
    /\ pc = "step6" /\ i <= Len(texts)
    /\ LET text == texts[i]
           pos == TransformCoord(text.x, text.y)
           nearestLink == NearestLink(result, pos)
           nearestNode == FindNearestNode(nodePositions, pos.x, pos.y, 80 * Unit)
       IN  IF ~text.assigned /\ nearestLink # 0
           THEN /\ result' = [result EXCEPT !.links[nearestLink].text = text.text]
                /\ texts' = [texts EXCEPT ![i].assigned = TRUE]
           ELSE IF ~text.assigned /\ nearestNode # 0
           THEN /\ result' = [result EXCEPT !.nodes[nodePositions[nearestNode].node].text = text.text]
                /\ texts' = [texts EXCEPT ![i].assigned = TRUE]
           ELSE UNCHANGED <<result, texts>>
    /\ i' = i + 1
    /\ UNCHANGED <<latexInput, importModal, importError, editorVars, circles, lines, arcs, fills,
                   pc, nodePositions, outcome, exported, kept, keybindVars, mouseVars, simVars>>

\* a variant of the step below that also looks at the texts Step 2 has taken
Step6AnyText ==
    /\ pc = "step6" /\ i <= Len(texts)
    /\ LET text == texts[i]
           pos == TransformCoord(text.x, text.y)
           nearestLink == NearestLink(result, pos)
       IN  IF nearestLink # 0
           THEN /\ result' = [result EXCEPT !.links[nearestLink].text = text.text]
                /\ texts' = [texts EXCEPT ![i].assigned = TRUE]
           ELSE UNCHANGED <<result, texts>>
    /\ i' = i + 1
    /\ UNCHANGED <<latexInput, importModal, importError, editorVars, circles, lines, arcs, fills,
                   pc, nodePositions, outcome, exported, kept, keybindVars, mouseVars, simVars>>

\* Step 6: assign text labels to links
Step6 ==
    /\ pc = "step6" /\ i <= Len(texts)
    /\ LET text == texts[i]
           pos == TransformCoord(text.x, text.y)
           nearestLink == NearestLink(result, pos)
       IN  IF ~text.assigned /\ nearestLink # 0
           THEN /\ result' = [result EXCEPT !.links[nearestLink].text = text.text]
                /\ texts' = [texts EXCEPT ![i].assigned = TRUE]
           ELSE UNCHANGED <<result, texts>>
    /\ i' = i + 1
    /\ UNCHANGED <<latexInput, importModal, importError, editorVars, circles, lines, arcs, fills,
                   pc, nodePositions, outcome, exported, kept, keybindVars, mouseVars, simVars>>

\* the collection a step's loop runs over, and the step after it
LoopLength ==
    CASE pc = "step1" -> Len(circles)
      [] pc = "step2" -> Len(texts)
      [] pc = "step3" -> Len(arcs)
      [] pc = "step4" -> Len(lines)
      [] pc = "step5" -> Len(arcs)
      [] pc = "step6" -> Len(texts)
      [] OTHER -> 0

NextPc ==
    CASE pc = "step1" -> "step2"
      [] pc = "step2" -> "step3"
      [] pc = "step3" -> "step4"
      [] pc = "step4" -> "step5"
      [] pc = "step5" -> "step6"
      [] OTHER -> "return"

\* a loop of reconstructFSM ends and the next begins; after Step 6, return result
NextStep ==
    /\ pc \in {"step1", "step2", "step3", "step4", "step5", "step6"}
    /\ i > LoopLength
    /\ pc' = NextPc
    /\ i' = 1
    /\ outcome' = IF pc = "step6" THEN "returned" ELSE outcome
    /\ UNCHANGED <<latexInput, importModal, importError, editorVars, importerVars, nodePositions,
                   result, exported, kept, keybindVars, mouseVars, simVars>>

----------------------------------------------------------------------------
(* The editor's import handler *)

MsgEmpty   == "Please paste some LaTeX code."
MsgNoTikz  == "Error: No tikzpicture environment found. Please paste valid TikZ LaTeX code."
MsgNoNodes == "Error: No nodes found in the LaTeX code. Make sure it contains valid TikZ circles."

\* importLaTeX up to the call of reconstructFSM: the empty-input check, then
\* importFromLaTeX's new ImportFromLaTeX() and parse(latexString)
ImportLaTeX ==
    /\ pc = "idle" /\ importModal = "block"
    /\ IF latexInput = << >>
       THEN /\ importError' = MsgEmpty
            /\ outcome' = "empty"
            /\ UNCHANGED <<importerVars, pc, i, nodePositions, result, kept>>
       ELSE LET parsed == Parse(latexInput)
            IN  /\ kept' = NoKept
                /\ circles' = parsed.prims.circles
                /\ texts' = parsed.prims.texts
                /\ lines' = parsed.prims.lines
                /\ arcs' = parsed.prims.arcs
                /\ fills' = parsed.prims.fills
                /\ result' = EmptyGraph
                /\ nodePositions' = << >>
                /\ i' = 1
                /\ IF parsed.thrown
                   THEN /\ importError' = MsgNoTikz
                        /\ outcome' = "thrown"
                        /\ pc' = "idle"
                   ELSE /\ outcome' = "running"
                        /\ pc' = "step1"
                        /\ UNCHANGED importError
    /\ UNCHANGED <<latexInput, importModal, editorVars, exported, keybindVars, mouseVars, simVars>>

\* a variant of the return below that assigns the result before looking at it
ImportReturnAssignFirst ==
    /\ pc = "return"
    /\ nodes' = result.nodes
    /\ links' = result.links
    /\ selectedObject' = 0
    /\ IF Len(result.nodes) = 0
       THEN /\ importError' = MsgNoNodes
            /\ outcome' = "nonodes"
            /\ UNCHANGED importModal
       ELSE /\ importModal' = "none"
            /\ outcome' = "imported"
            /\ UNCHANGED importError
    /\ pc' = "idle"
    /\ UNCHANGED <<latexInput, importerVars, i, nodePositions, result, exported, kept, keybindVars, mouseVars, simVars>>

\* importLaTeX after importFromLaTeX has returned result
ImportReturn ==
    /\ pc = "return"
    /\ IF Len(result.nodes) = 0
       THEN /\ importError' = MsgNoNodes
            /\ outcome' = "nonodes"
            /\ UNCHANGED <<editorVars, importModal>>
       ELSE /\ nodes' = result.nodes
            /\ links' = result.links
            /\ selectedObject' = 0
            /\ importModal' = "none"          \* hideImportModal()
            /\ outcome' = "imported"
            /\ UNCHANGED importError
    /\ pc' = "idle"
    /\ UNCHANGED <<latexInput, importerVars, i, nodePositions, result, exported, kept, keybindVars, mouseVars, simVars>>

\* a caller that keeps its importer calls reconstructFSM a second time once
\* the first call has returned: result and nodePositions are new, the
\* collections are those the first call left
ReconstructAgain ==
    /\ pc = "return" /\ kept.call = ""
    /\ kept' = [call |-> "reconstructFSM", text |-> latexInput, graph |-> result]
    /\ result' = EmptyGraph
    /\ nodePositions' = << >>
    /\ i' = 1
    /\ pc' = "step1"
    /\ outcome' = "running"
    /\ UNCHANGED <<latexInput, importModal, importError, editorVars, importerVars, exported,
                   keybindVars, mouseVars, simVars>>

\* a caller that keeps its importer calls parse(text) on it once reconstructFSM
\* has returned, and then reconstructFSM
ParseAgain(again) ==
    /\ pc = "return" /\ kept.call = ""
    /\ \E text \in again :
          LET parsed == ParseOn([circles |-> circles, texts |-> texts, lines |-> lines,
                                 arcs |-> arcs, fills |-> fills], text)
          IN  /\ kept' = [call |-> "parse", text |-> latexInput, graph |-> result]
              /\ latexInput' = text
              /\ circles' = parsed.prims.circles
              /\ texts' = parsed.prims.texts
              /\ lines' = parsed.prims.lines
              /\ arcs' = parsed.prims.arcs
              /\ fills' = parsed.prims.fills
              /\ result' = EmptyGraph
              /\ nodePositions' = << >>
              /\ i' = 1
              /\ IF parsed.thrown
                 THEN outcome' = "thrown" /\ pc' = "idle"
                 ELSE outcome' = "running" /\ pc' = "step1"
    /\ UNCHANGED <<importModal, importError, editorVars, exported, keybindVars, mouseVars, simVars>>

----------------------------------------------------------------------------
(* ExportAsLaTeX, driven by drawUsing: the lines written for a diagram *)

\* fixed(v * 0.1, 2): a canvas length as a TikZ number
Fixed(v) == Round(v, scale)

\* originalText.replace(/ /g, '\\mbox{ }')
EncodeText(text) == [k \in DOMAIN text |-> IF text[k] = " " THEN "\\mbox{ }" ELSE text[k]]

\* text.replace(' ', '').length > 0: something is left once the first space is removed
NonBlank(text) == Len(text) >= 2 \/ (Len(text) = 1 /\ text[1] # " ")

\* c.measureText(text).width in the 20px serif font: 10 canvas units a character
MeasureText(text) == 10 * Unit * Len(text)

\* |v|^10 and |v|^40 for v in ten-thousandths
Pow10(v) ==
    LET v2 == (v * v) \div Trig
        v4 == (v2 * v2) \div Trig
        v8 == (v4 * v4) \div Trig
    IN  (v8 * v2) \div Trig
Pow40(v) ==
    LET v10 == Pow10(v)
        v20 == (v10 * v10) \div Trig
    IN  (v20 * v20) \div Trig

\* drawText followed by advancedFillText at (x, y): the node line, if any.
\* hasAngle is angleOrNull != null.
DrawText(text, x, y, angle, hasAngle) ==
    IF ~NonBlank(text) THEN << >>
    ELSE IF ~hasAngle THEN <<DrawNode(Fixed(x), Fixed(-y), "", EncodeText(text))>>
    ELSE
      LET width == MeasureText(text)
          cos == Cos(angle)
          sin == Sin(angle)
          cornerPointX == (width \div 2 + 5 * Unit) * (IF cos > 0 THEN 1 ELSE -1)
          cornerPointY == (10 * Unit + 5 * Unit) * (IF sin > 0 THEN 1 ELSE -1)
          slide == Round(((sin * Pow40(Abs(sin))) \div Trig) * cornerPointX
                         - ((cos * Pow10(Abs(cos))) \div Trig) * cornerPointY, Trig)
          tx == x + cornerPointX - Round(sin * slide, Trig)
          ty == y + cornerPointY + Round(cos * slide, Trig)
      IN  IF Abs(cos) > Abs(sin)
          THEN IF cos > 0
               THEN <<DrawNode(Fixed(tx - width \div 2), Fixed(-ty), "right", EncodeText(text))>>
               ELSE <<DrawNode(Fixed(tx + width \div 2), Fixed(-ty), "left", EncodeText(text))>>
          ELSE IF sin > 0
               THEN <<DrawNode(Fixed(tx), Fixed(-(ty - 10 * Unit)), "below", EncodeText(text))>>
               ELSE <<DrawNode(Fixed(tx), Fixed(-(ty + 10 * Unit)), "above", EncodeText(text))>>

\* drawArrow with the directed switch on: the \fill line of an arrow head
DrawArrow(x, y, angle) ==
    LET dx == Cos(angle)
        dy == Sin(angle)
    IN  <<FillPath(<<Pt(Fixed(x), Fixed(-y)),
                     Pt(Fixed(x - Round(8 * Unit * dx - 5 * Unit * dy, Trig)),
                        Fixed(-(y - Round(8 * Unit * dy + 5 * Unit * dx, Trig)))),
                     Pt(Fixed(x - Round(8 * Unit * dx + 5 * Unit * dy, Trig)),
                        Fixed(-(y - Round(8 * Unit * dy - 5 * Unit * dx, Trig))))>>)>>

\* ExportAsLaTeX.arc for a part of a circle, angles in degrees
ExportArc(x, y, radius, startAngle, endAngle, isReversed) ==
    LET s1 == IF isReversed THEN endAngle ELSE startAngle
        e1 == IF isReversed THEN startAngle ELSE endAngle
        e2 == IF e1 < s1 THEN e1 + 360 ELSE e1
        shift == IF Min(s1, e2) < -360 THEN 360
                 ELSE IF (IF s1 > e2 THEN s1 ELSE e2) > 360 THEN -360 ELSE 0
        sa == -(s1 + shift)
        ea == -(e2 + shift)
    IN  <<DrawArc(Fixed(x) + Round(Fixed(radius) * Cos(sa), Trig),
                  Fixed(-y) + Round(Fixed(radius) * Sin(sa), Trig),
                  sa, ea, Fixed(radius))>>

\* Node.prototype.closestPointOnCircle
ClosestPointOnCircle(node, x, y) ==
    LET dx == x - node.x
        dy == y - node.y
        dist == ISqrt(Sq(dx) + Sq(dy))
    IN  [x |-> node.x + Round(dx * nodeRadius, dist),
         y |-> node.y + Round(dy * nodeRadius, dist)]

\* Node.prototype.draw
NodeLines(node) ==
    <<DrawCircle(Fixed(node.x), Fixed(-node.y), Fixed(nodeRadius))>>
    \o DrawText(node.text, node.x, node.y, 0, FALSE)
    \o (IF node.isAcceptState
        THEN <<DrawCircle(Fixed(node.x), Fixed(-node.y), Fixed(nodeRadius - 6 * Unit))>>
        ELSE << >>)

\* SelfLink.prototype.draw
SelfLinkLines(graph, link) ==
    LET node == graph.nodes[link.node]
        circleX == node.x + Round(((3 * nodeRadius) \div 2) * Cos(link.anchorAngle), Trig)
        circleY == node.y + Round(((3 * nodeRadius) \div 2) * Sin(link.anchorAngle), Trig)
        circleRadius == (3 * nodeRadius) \div 4
        startAngle == link.anchorAngle - 144
        endAngle == link.anchorAngle + 144
        endX == circleX + Round(circleRadius * Cos(endAngle), Trig)
        endY == circleY + Round(circleRadius * Sin(endAngle), Trig)
    IN  ExportArc(circleX, circleY, circleRadius, startAngle, endAngle, FALSE)
        \o DrawText(link.text,
                    circleX + Round(circleRadius * Cos(link.anchorAngle), Trig),
                    circleY + Round(circleRadius * Sin(link.anchorAngle), Trig),
                    link.anchorAngle, TRUE)
        \o DrawArrow(endX, endY, endAngle + 72)

\* StartLink.prototype.draw
StartLinkLines(graph, link) ==
    LET node == graph.nodes[link.node]
        startX == node.x + link.deltaX
        startY == node.y + link.deltaY
        end == ClosestPointOnCircle(node, startX, startY)
    IN  <<DrawPath(<<Pt(Fixed(startX), Fixed(-startY)), Pt(Fixed(end.x), Fixed(-end.y))>>)>>
        \o DrawText(link.text, startX, startY, Atan2(startY - end.y, startX - end.x), TRUE)
        \o DrawArrow(end.x, end.y, Atan2(-link.deltaY, -link.deltaX))

\* Link.prototype.draw of a straight link (perpendicularPart = 0)
LinkLines(graph, link) ==
    LET nodeA == graph.nodes[link.nodeA]
        nodeB == graph.nodes[link.nodeB]
        midX == (nodeA.x + nodeB.x) \div 2
        midY == (nodeA.y + nodeB.y) \div 2
        start == ClosestPointOnCircle(nodeA, midX, midY)
        end == ClosestPointOnCircle(nodeB, midX, midY)
    IN  <<DrawPath(<<Pt(Fixed(start.x), Fixed(-start.y)), Pt(Fixed(end.x), Fixed(-end.y))>>)>>
        \o DrawArrow(end.x, end.y, Atan2(end.y - start.y, end.x - start.x))
        \o DrawText(link.text, (start.x + end.x) \div 2, (start.y + end.y) \div 2,
                    Atan2(end.x - start.x, start.y - end.y) + link.lineAngleAdjust, TRUE)

RECURSIVE DrawNodes(_, _)
DrawNodes(graph, k) ==
    IF k > Len(graph.nodes) THEN << >>
    ELSE NodeLines(graph.nodes[k]) \o DrawNodes(graph, k + 1)

RECURSIVE DrawLinks(_, _)
DrawLinks(graph, k) ==
    IF k > Len(graph.links) THEN << >>
    ELSE (IF graph.links[k].type = "SelfLink" THEN SelfLinkLines(graph, graph.links[k])
          ELSE IF graph.links[k].type = "StartLink" THEN StartLinkLines(graph, graph.links[k])
          ELSE LinkLines(graph, graph.links[k]))
         \o DrawLinks(graph, k + 1)

\* drawUsing(exporter) followed by exporter.toLaTeX()
ToLaTeX(graph) ==
    <<OtherLine, OtherLine, OtherLine, OtherLine, BeginLine, OtherLine>>
    \o DrawNodes(graph, 1) \o DrawLinks(graph, 1)
    \o <<EndLine, OtherLine, OtherLine>>

\* saveAsLaTeX: the diagram is drawn into the output box, whose text is
\* ToLaTeX(exported.graph) from then on.  The import modal's overlay covers the
\* page while the modal is shown.  One export is followed here, and only of a
\* diagram whose links are straight: the arc Link.prototype.draw writes for a
\* curved link is not part of LinkLines.
SaveAsLaTeX ==
    /\ pc = "idle" /\ importModal = "none"
    /\ ~exported.saved
    /\ \A k \in DOMAIN links : links[k].perpendicularPart = 0
    /\ exported' = [saved |-> TRUE, graph |-> [nodes |-> nodes, links |-> links]]
    /\ UNCHANGED <<latexInput, importModal, importError, editorVars, importerVars,
                   pc, i, nodePositions, result, outcome, kept, keybindVars, mouseVars, simVars>>

\* showImportModal, then the user pastes the text of the output box
PasteOutput ==
    /\ pc = "idle" /\ importModal = "none"
    /\ exported.saved
    /\ importModal' = "block"
    /\ importError' = ""
    /\ latexInput' = ToLaTeX(exported.graph)
    /\ outcome' = "none"
    /\ UNCHANGED <<editorVars, importerVars, pc, i, nodePositions, result, exported, kept, keybindVars, mouseVars, simVars>>

----------------------------------------------------------------------------
(* The editor's arc of a curved link *)

\* Link.prototype.getAnchorPoint, for a link between the nodes a and b
GetAnchorPoint(a, b, link) ==
    LET dx == b.x - a.x
        dy == b.y - a.y
        sc == ISqrt(Sq(dx) + Sq(dy))
    IN  [x |-> a.x + Round(dx * link.parallelPart, Unit) - Round(dy * link.perpendicularPart, sc),
         y |-> a.y + Round(dy * link.parallelPart, Unit) + Round(dx * link.perpendicularPart, sc)]

\* n / (2 * a) rounded to the nearest integer, for a of either sign
HalfQuot(n, a) == IF a < 0 THEN (- n - a) \div (- 2 * a) ELSE (n + a) \div (2 * a)

\* circleFromThreePoints.  The determinants are taken in tenths of a unit
\* and with (x1, y1) as the origin, where a = x2*y3 - x3*y2,
\* bx = -(s2*y3 - s3*y2), by = s2*x3 - s3*x2 and c = 0, so that
\* sqrt(bx*bx + by*by - 4*a*c) / (2*|a|) is the centre's distance from the
\* origin; a = 0 (three points in a line) gives no circle: radius 0
CircleFromThreePoints(x1, y1, x2, y2, x3, y3) ==
    LET px == Round(x2 - x1, 10)
        py == Round(y2 - y1, 10)
        qx == Round(x3 - x1, 10)
        qy == Round(y3 - y1, 10)
        a == px * qy - qx * py
        s2 == Sq(px) + Sq(py)
        s3 == Sq(qx) + Sq(qy)
        cx == HalfQuot(s2 * qy - s3 * py, a)
        cy == HalfQuot(s3 * px - s2 * qx, a)
    IN  IF a = 0 THEN [x |-> x1, y |-> y1, radius |-> 0]
        ELSE [x |-> x1 + 10 * cx, y |-> y1 + 10 * cy, radius |-> 10 * ISqrt(Sq(cx) + Sq(cy))]

\* Link.prototype.getEndPointsAndCircle for a link with perpendicularPart # 0:
\* the circle and the angles, in degrees, between which the arc is drawn
GetEndPointsAndCircle(a, b, link) ==
    LET anchor == GetAnchorPoint(a, b, link)
        circle == CircleFromThreePoints(a.x, a.y, b.x, b.y, anchor.x, anchor.y)
        isReversed == link.perpendicularPart > 0
        reverseScale == IF isReversed THEN 1 ELSE -1
        trim == IF circle.radius = 0 THEN 0 ELSE Round(573 * nodeRadius, 10 * circle.radius)
    IN  [circleX |-> circle.x, circleY |-> circle.y, circleRadius |-> circle.radius,
         startAngle |-> Atan2(a.y - circle.y, a.x - circle.x) - reverseScale * trim,
         endAngle |-> Atan2(b.y - circle.y, b.x - circle.x) + reverseScale * trim,
         isReversed |-> isReversed]

\* Link.prototype.draw: the point in the middle of the arc, where the text goes
ArcTextPoint(stuff) ==
    LET endAngle == IF stuff.endAngle < stuff.startAngle THEN stuff.endAngle + 360
                    ELSE stuff.endAngle
        textAngle == (stuff.startAngle + endAngle) \div 2 + (IF stuff.isReversed THEN 180 ELSE 0)
    IN  [x |-> stuff.circleX + Round(stuff.circleRadius * Cos(textAngle), Trig),
         y |-> stuff.circleY + Round(stuff.circleRadius * Sin(textAngle), Trig)]

----------------------------------------------------------------------------
(* The importer of the built page, docs/fsm.js: Step 5 and Step 6 *)

\* a variant of the search below that also looks at the arrowheads taken
NearestFillAny(fs, startPos, endPos) ==
    LET first(j) == TransformCoord(fs[j].points[1].x, fs[j].points[1].y)
        toEnd(j) == Dist2(first(j).x, first(j).y, endPos.x, endPos.y)
        toStart(j) == Dist2(first(j).x, first(j).y, startPos.x, startPos.y)
        near == {j \in DOMAIN fs :
                    \/ Closer(first(j).x, first(j).y, endPos.x, endPos.y, 20 * Unit)
                    \/ Closer(first(j).x, first(j).y, startPos.x, startPos.y, 20 * Unit)}
        minDist(j) == Min(toEnd(j), toStart(j))
        nearest == CHOOSE j \in near :
                      \A m \in near : minDist(j) < minDist(m) \/ (minDist(j) = minDist(m) /\ j <= m)
    IN  IF near = {} THEN [fill |-> 0, atStart |-> FALSE]
        ELSE [fill |-> nearest, atStart |-> toStart(nearest) < toEnd(nearest)]

\* the arrowhead of an arc from startPos to endPos: the fill not yet taken
\* whose first point is nearest to an end of the arc and nearer than 20, the
\* first of equally near ones, and whether that end is the start; fill 0 is null
NearestFill(fs, startPos, endPos) ==
    LET first(j) == TransformCoord(fs[j].points[1].x, fs[j].points[1].y)
        toEnd(j) == Dist2(first(j).x, first(j).y, endPos.x, endPos.y)
        toStart(j) == Dist2(first(j).x, first(j).y, startPos.x, startPos.y)
        near == {j \in DOMAIN fs :
                    /\ ~fs[j].assigned
                    /\ \/ Closer(first(j).x, first(j).y, endPos.x, endPos.y, 20 * Unit)
                       \/ Closer(first(j).x, first(j).y, startPos.x, startPos.y, 20 * Unit)}
        minDist(j) == Min(toEnd(j), toStart(j))
        nearest == CHOOSE j \in near :
                      \A m \in near : minDist(j) < minDist(m) \/ (minDist(j) = minDist(m) /\ j <= m)
    IN  IF near = {} THEN [fill |-> 0, atStart |-> FALSE]
        ELSE [fill |-> nearest, atStart |-> toStart(nearest) < toEnd(nearest)]

\* Step 5 of the built page: the arrowhead decides which node the link leaves
Step5Bundle ==
    /\ pc = "step5" /\ i <= Len(arcs)
    /\ kept.call = "bundle"
    /\ LET arc == arcs[i]
           endX == arc.centerX + Round(arc.radius * Cos(arc.endAngle), Trig)
           endY == arc.centerY + Round(arc.radius * Sin(arc.endAngle), Trig)
           startPos == TransformCoord(arc.startX, arc.startY)
           endPos == TransformCoord(endX, endY)
           arcStartNode == FindNearestNode(nodePositions, startPos.x, startPos.y, nodeRadius + 15 * Unit)
           arcEndNode == FindNearestNode(nodePositions, endPos.x, endPos.y, nodeRadius + 15 * Unit)
           nearestFill == NearestFill(fills, startPos, endPos)
           nodeA == IF nearestFill.atStart THEN arcEndNode ELSE arcStartNode
           nodeB == IF nearestFill.atStart THEN arcStartNode ELSE arcEndNode
       IN  IF ~arc.assigned /\ arcStartNode # 0 /\ arcEndNode # 0 /\ arcStartNode # arcEndNode
           THEN /\ result' = [result EXCEPT !.links = Append(@,
                        CurvedLink(arc, nodePositions[nodeA], nodePositions[nodeB]))]
                /\ arcs' = [arcs EXCEPT ![i].assigned = TRUE]
                /\ fills' = IF nearestFill.fill # 0
                            THEN [fills EXCEPT ![nearestFill.fill].assigned = TRUE]
                            ELSE fills
           ELSE UNCHANGED <<result, arcs, fills>>
    /\ i' = i + 1
    /\ UNCHANGED <<latexInput, importModal, importError, editorVars, circles, texts, lines,
                   pc, nodePositions, outcome, exported, kept, keybindVars, mouseVars, simVars>>

\* _getLinkMidpoint of the built page for a curved link: the point of the
\* arc at the middle angle, the angles swapped for a reversed arc
BundleArcMiddle(stuff) ==
    LET startAngle == IF stuff.isReversed THEN stuff.endAngle ELSE stuff.startAngle
        swapped == IF stuff.isReversed THEN stuff.startAngle ELSE stuff.endAngle
        endAngle == IF swapped < startAngle THEN swapped + 360 ELSE swapped
        midAngle == (startAngle + endAngle) \div 2
    IN  [x |-> stuff.circleX + Round(stuff.circleRadius * Cos(midAngle), Trig),
         y |-> stuff.circleY + Round(stuff.circleRadius * Sin(midAngle), Trig)]

\* _getLinkMidpoint of the built page: the middle of the arc of a curved link
GetLinkMidpointBundle(graph, link) ==
    IF link.type = "Link" /\ link.perpendicularPart # 0
    THEN BundleArcMiddle(GetEndPointsAndCircle(graph.nodes[link.nodeA], graph.nodes[link.nodeB], link))
    ELSE GetLinkMidpoint(graph, link)

\* the link of Step 6 of the built page nearest to pos
NearestLinkBundle(graph, pos) ==
    LET mid == [j \in DOMAIN graph.links |-> GetLinkMidpointBundle(graph, graph.links[j])]
        near == {j \in DOMAIN graph.links :
                    Closer(pos.x, pos.y, mid[j].x, mid[j].y, 80 * Unit)}
        d == [j \in near |-> Dist2(pos.x, pos.y, mid[j].x, mid[j].y)]
    IN  IF near = {} THEN 0
        ELSE CHOOSE j \in near : \A m \in near : d[j] < d[m] \/ (d[j] = d[m] /\ j <= m)

\* Step 6 of the built page
Step6Bundle ==
    /\ pc = "step6" /\ i <= Len(texts)
    /\ kept.call = "bundle"
    /\ LET text == texts[i]
           pos == TransformCoord(text.x, text.y)
           nearestLink == NearestLinkBundle(result, pos)
       IN  IF ~text.assigned /\ nearestLink # 0
           THEN /\ result' = [result EXCEPT !.links[nearestLink].text = text.text]
                /\ texts' = [texts EXCEPT ![i].assigned = TRUE]
           ELSE UNCHANGED <<result, texts>>
    /\ i' = i + 1
    /\ UNCHANGED <<latexInput, importModal, importError, editorVars, circles, lines, arcs, fills,
                   pc, nodePositions, outcome, exported, kept, keybindVars, mouseVars, simVars>>

\* importFromLaTeX of the built page, called on the text that importFromLaTeX
\* of src/import_from/latex.js has returned a graph for
BundleAgain ==
    /\ pc = "return" /\ kept.call = ""
    /\ LET parsed == Parse(latexInput)
       IN  /\ kept' = [call |-> "bundle", text |-> latexInput, graph |-> result]
           /\ circles' = parsed.prims.circles
           /\ texts' = parsed.prims.texts
           /\ lines' = parsed.prims.lines
           /\ arcs' = parsed.prims.arcs
           /\ fills' = parsed.prims.fills
           /\ result' = EmptyGraph
           /\ nodePositions' = << >>
           /\ i' = 1
           /\ pc' = "step1"
           /\ outcome' = "running"
    /\ UNCHANGED <<latexInput, importModal, importError, editorVars, exported,
                   keybindVars, mouseVars, simVars>>

----------------------------------------------------------------------------
(* Inputs *)

MaxStmts == 3          \* statements between the begin line and the end line

RECURSIVE SeqsUpTo(_, _)
SeqsUpTo(S, n) ==
    IF n = 0 THEN {<< >>}
    ELSE LET shorter == SeqsUpTo(S, n - 1)
         IN  shorter \cup {Append(q, e) : q \in {r \in shorter : Len(r) = n - 1}, e \in S}

\* TikZ positions of two states 100 canvas units apart, and points around them
P1x == 30 * Unit
P2x == 40 * Unit
Py  == (-30) * Unit

MixedStmts ==
    { DrawCircle(P1x, Py, 3 * Unit),                       \* state at (300,300)
      DrawCircle(P2x, Py, 3 * Unit),                       \* state at (400,300)
      DrawNode(P1x, Py, "", <<"A">>),                      \* label of the first state
      DrawNode(P1x + 5 * Unit, Py + Unit, "above", <<"x">>),   \* caption between the states
      DrawPath(<<Pt(P1x + 3 * Unit, Py), Pt(P2x - 3 * Unit, Py)>>),   \* shaft (300,300) -> (400,300)
      DrawPath(<<Pt(P1x - 6 * Unit, Py), Pt(P1x - 3 * Unit, Py)>>),   \* start arrow into (300,300)
      DrawArc(P1x - 132, Py + 268, 234, -54, 225),         \* loop above (300,300)
      DrawArc(P1x, Py, 180, 0, 5 * Unit),                  \* arc (300,300) .. (400,300)
      Line("draw", FALSE, "circle", P1x, Py, 3 * Unit, 0, 0, "", << >>, NoPts) }  \* no [style]: matches nothing

\* circles around the state at (300,300): offsets of 0.9 and of 1 canvas unit,
\* radii at and beside the limits of the two radius classes
Near == Unit \div 10 - 1
Apart == Unit \div 10
NodeStmts ==
    { DrawCircle(P1x, Py, 3 * Unit),                       \* outer ring
      DrawCircle(P1x + Near, Py, 3 * Unit),                \* outer ring 0.9 to the right
      DrawCircle(P1x + Apart, Py, 3 * Unit),               \* outer ring 1 to the right
      DrawCircle(P1x, Py, 251),                            \* radius 2.51
      DrawCircle(P1x, Py, 250),                            \* radius 2.5
      DrawCircle(P1x, Py, 350),                            \* radius 3.5
      DrawCircle(P1x, Py, 240),                            \* inner ring
      DrawCircle(P1x + Near, Py - Near, 240),              \* inner ring 0.9 right and 0.9 down
      DrawCircle(P1x + Apart, Py, 240),                    \* inner ring 1 to the right
      DrawNode(P1x, Py, "", <<"A">>),                      \* label at (300,300)
      DrawNode(P2x, Py, "", <<"q", "\\mbox{ }", "0">>),    \* label at (400,300)
      DrawCircle(P2x, Py, 3 * Unit) }                      \* state at (400,300)

\* what surrounds the statements: a block, a block inside a document, and
\* texts without a complete block
Wrap(w, body) ==
    CASE w = "block"    -> <<BeginLine>> \o body \o <<EndLine>>
      [] w = "document" -> <<OtherLine, DrawCircle(P2x, Py, 3 * Unit), BeginLine>> \o body
                            \o <<EndLine, DrawCircle(P2x, Py, 3 * Unit), EndLine>>
      [] w = "bare"     -> body
      [] w = "noEnd"    -> <<BeginLine>> \o body
      [] w = "noBegin"  -> body \o <<EndLine>>
      [] OTHER          -> <<EndLine>> \o body \o <<BeginLine>>

Wrappers == {"block", "document", "bare", "noEnd", "noBegin", "endFirst"}

TextsOver(S) == {Wrap(w, body) : w \in Wrappers, body \in SeqsUpTo(S, MaxStmts)}

\* a diagram drawn in the editor before the import: one accepting state with a loop
LoopDiagram ==
    [nodes |-> <<[Node(2 * Unit * Unit, Unit * Unit) EXCEPT !.isAcceptState = TRUE,
                                                           !.text = <<"s">>]>>,
     links |-> <<[SelfLink(1) EXCEPT !.text = <<"a">>]>>]

InitWith(diagrams, inputs) ==
    /\ latexInput \in inputs
    /\ importModal = "block"
    /\ importError = ""
    /\ \E d \in diagrams : nodes = d.nodes /\ links = d.links
    /\ selectedObject = 0
    /\ circles = << >> /\ texts = << >> /\ lines = << >> /\ arcs = << >> /\ fills = << >>
    /\ pc = "idle"
    /\ i = 1
    /\ nodePositions = << >>
    /\ result = EmptyGraph
    /\ outcome = "none"
    /\ exported = [saved |-> FALSE, graph |-> EmptyGraph]
    /\ kept = NoKept
    /\ undoStack = << >> /\ redoStack = << >>
    /\ listed = NoList
    /\ currentLink = NoLink /\ movingObject = FALSE /\ originalClick = Pt(0, 0)
    /\ simulationActive = FALSE /\ currentSimulation = NoSimulation /\ simError = << >>

Init == InitWith({LoopDiagram}, TextsOver(MixedStmts))

Next ==
    \/ ImportLaTeX
    \/ Step1
    \/ Step2
    \/ Step3
    \/ Step4
    \/ Step5
    \/ Step6
    \/ NextStep
    \/ ImportReturn
    \/ SaveAsLaTeX
    \/ PasteOutput

Spec == Init /\ [][Next]_vars

\* importFromLaTeX and the rest of the handler run to completion once called
Reconstruct == Step1 \/ Step2 \/ Step3 \/ Step4 \/ Step5 \/ Step6 \/ NextStep \/ ImportReturn

\* texts with a block, over fewer statements
FairStmts ==
    { DrawCircle(P1x, Py, 3 * Unit),
      DrawNode(P1x, Py, "", <<"A">>),
      DrawNode(P1x + 5 * Unit, Py + Unit, "above", <<"x">>),
      DrawPath(<<Pt(P1x + 3 * Unit, Py), Pt(P2x - 3 * Unit, Py)>>),
      DrawArc(P1x - 132, Py + 268, 234, -54, 225),
      Line("draw", FALSE, "circle", P1x, Py, 3 * Unit, 0, 0, "", << >>, NoPts) }
InitFair ==
    InitWith({LoopDiagram},
             {Wrap(w, body) : w \in {"block", "document"}, body \in SeqsUpTo(FairStmts, MaxStmts)})
FairSpec == InitFair /\ [][Next]_vars /\ WF_vars(Reconstruct)

\* texts of circles and state labels, and short ones followed by a loop and a
\* start arrow at (300,300)
LinkTail == <<DrawArc(P1x - 132, Py + 268, 234, -54, 225),
              DrawPath(<<Pt(P1x - 6 * Unit, Py), Pt(P1x - 3 * Unit, Py)>>)>>
InitNodes ==
    InitWith({LoopDiagram},
             {Wrap("block", body) : body \in SeqsUpTo(NodeStmts, MaxStmts)}
             \cup {Wrap("block", body \o LinkTail) : body \in SeqsUpTo(NodeStmts, 1)})
SpecNodes == InitNodes /\ [][Next]_vars

----------------------------------------------------------------------------
(* Diagrams drawn in the editor, for the export and re-import *)

MaxNodes == 2          \* states of a drawn diagram
MaxLinks == 2          \* links of a drawn diagram

\* canvas positions on a grid of 100 units
DrawnPositions == {Pt(Unit * Unit, Unit * Unit), Pt(2 * Unit * Unit, Unit * Unit)}

\* a plain state named q, or an unnamed accepting state
DrawnNodes ==
    {[Node(p.x, p.y) EXCEPT !.isAcceptState = acc, !.text = IF acc THEN << >> ELSE <<"q">>] :
        p \in DrawnPositions, acc \in BOOLEAN}

\* links as the mouse handlers create them between the states 1..n: a straight
\* link, a loop snapped to a multiple of 90 degrees, a start arrow from the
\* left or from above
DrawnLinks(n) ==
    {[Link(a, b) EXCEPT !.text = t] :
        a \in 1..n, b \in 1..n, t \in {<< >>, <<"x">>}}
    \cup {[SelfLink(a) EXCEPT !.anchorAngle = ang, !.text = t] :
        a \in 1..n, ang \in {0, -90}, t \in {<< >>, <<"x">>}}
    \cup {[StartLink(a) EXCEPT !.deltaX = d.x, !.deltaY = d.y, !.text = << >>] :
        a \in 1..n, d \in {Pt(-60 * Unit, 0), Pt(0, -60 * Unit)}}

Diagrams(maxNodes, maxLinks) ==
    {[nodes |-> ns, links |-> ls] :
        ns \in {q \in SeqsUpTo(DrawnNodes, maxNodes) :
                    /\ Len(q) >= 1
                    /\ \A a, b \in DOMAIN q : a # b => Pt(q[a].x, q[a].y) # Pt(q[b].x, q[b].y)},
        ls \in SeqsUpTo(DrawnLinks(maxNodes), maxLinks)}

WellFormed(d) ==
    \A k \in DOMAIN d.links :
        /\ d.links[k].type = "Link" =>
              /\ d.links[k].nodeA \in DOMAIN d.nodes /\ d.links[k].nodeB \in DOMAIN d.nodes
              /\ d.links[k].nodeA # d.links[k].nodeB
        /\ d.links[k].type # "Link" => d.links[k].node \in DOMAIN d.nodes

\* the editor holds a drawn diagram, the import modal is closed
InitDrawn ==
    /\ latexInput = << >>
    /\ importModal = "none"
    /\ importError = ""
    /\ \E d \in {g \in Diagrams(MaxNodes, MaxLinks) : WellFormed(g)} : nodes = d.nodes /\ links = d.links
    /\ selectedObject = 0
    /\ circles = << >> /\ texts = << >> /\ lines = << >> /\ arcs = << >> /\ fills = << >>
    /\ pc = "idle"
    /\ i = 1
    /\ nodePositions = << >>
    /\ result = EmptyGraph
    /\ outcome = "none"
    /\ exported = [saved |-> FALSE, graph |-> EmptyGraph]
    /\ kept = NoKept
    /\ undoStack = << >> /\ redoStack = << >>
    /\ listed = NoList
    /\ currentLink = NoLink /\ movingObject = FALSE /\ originalClick = Pt(0, 0)
    /\ simulationActive = FALSE /\ currentSimulation = NoSimulation /\ simError = << >>

SpecDrawn == InitDrawn /\ [][Next]_vars

----------------------------------------------------------------------------
(* Texts of states followed by lines, arcs and arrowheads *)

\* TikZ x of a state 70 and of a state 132 canvas units right of (300,300)
P3x == 37 * Unit
P4x == (432 * Unit) \div 10

\* the states drawn first: (300,300) with (400,300), (370,300) or (432,300)
EdgeHeads ==
    { <<DrawCircle(P1x, Py, 3 * Unit), DrawCircle(P2x, Py, 3 * Unit)>>,
      <<DrawCircle(P1x, Py, 3 * Unit), DrawCircle(P3x, Py, 3 * Unit)>>,
      <<DrawCircle(P1x, Py, 3 * Unit), DrawCircle(P4x, Py, 3 * Unit)>> }

EdgeStmts ==
    { DrawPath(<<Pt(P1x + 340, Py), Pt(P3x, Py)>>),        \* (334,300) -> (370,300)
      DrawPath(<<Pt(P1x + 360, Py), Pt(P1x + Unit, Py)>>), \* (336,300) -> (310,300)
      DrawPath(<<Pt(P1x + 360, Py), Pt(P1x + 4 * Unit, Py)>>),   \* (336,300) -> (340,300)
      DrawPath(<<Pt(P1x - 6 * Unit, Py), Pt(P1x - 3 * Unit, Py)>>),   \* start arrow into (300,300)
      DrawPath(<<Pt(P1x - 3 * Unit, Py), Pt(P1x - 6 * Unit, Py)>>),   \* the same, drawn backwards
      DrawPath(<<Pt(P1x, Py - 10 * Unit), Pt(P1x, Py - 20 * Unit)>>), \* far from every state
      DrawPath(<<Pt(P1x - Unit, Py), Pt(P1x + Unit, Py)>>),           \* inside the state at (300,300)
      DrawPath(<<Pt(P1x + 340, Py), Pt(P1x + 5 * Unit, Py + Unit), Pt(P3x, Py)>>),  \* three points
      DrawArc(P1x - 132, Py + 268, 234, -54, 225),         \* loop above (300,300)
      DrawArc(P1x, Py, 180, 0, 5 * Unit),                  \* arc (300,300) .. (400,300)
      DrawArc(P1x + 435, Py, 180, 0, 225),                 \* small arc (343.5,300) .. (388.5,300)
      DrawArc(P1x, Py, 0, 180, 5 * Unit),                  \* arc (300,300) .. (200,300)
      DrawArc(P1x + Unit, Py, 0, 180, Unit),               \* arc (310,300) .. (290,300)
      FillPath(<<Pt(P1x, Py), Pt(P1x + 80, Py + 50), Pt(P1x + 80, Py - 50)>>),  \* arrowhead at (300,300)
      FillPath(<<Pt(P2x, Py), Pt(P2x - 80, Py + 50), Pt(P2x - 80, Py - 50)>>),  \* arrowhead at (400,300)
      DrawNode(P1x, Py, "", <<"A">>) }                     \* label of the state at (300,300)

InitEdges ==
    InitWith({LoopDiagram},
             {Wrap("block", head \o body) :
                 head \in EdgeHeads, body \in SeqsUpTo(EdgeStmts, MaxStmts - 1)})
SpecEdges == InitEdges /\ [][Next]_vars

----------------------------------------------------------------------------
(* Texts of states and edges followed by labels *)

\* two states with a line between them and a loop, two states with a start
\* arrow, two states with an arc (300,300) .. (400,300) through (350,250)
\* between them, one state alone
LabelHeads ==
    { <<DrawCircle(P1x, Py, 3 * Unit), DrawCircle(P2x, Py, 3 * Unit),
        DrawPath(<<Pt(P1x + 3 * Unit, Py), Pt(P2x - 3 * Unit, Py)>>),
        DrawArc(P1x - 132, Py + 268, 234, -54, 225)>>,
      <<DrawCircle(P1x, Py, 3 * Unit), DrawCircle(P2x, Py, 3 * Unit),
        DrawPath(<<Pt(P1x - 6 * Unit, Py), Pt(P1x - 3 * Unit, Py)>>)>>,
      <<DrawCircle(P1x, Py, 3 * Unit), DrawCircle(P2x, Py, 3 * Unit),
        DrawArc(P1x, Py, 180, 0, 5 * Unit)>>,
      <<DrawCircle(P1x, Py, 3 * Unit)>> }

LabelStmts ==
    { DrawNode(P1x, Py, "", <<"A">>),                          \* at (300,300)
      DrawNode(P1x + Unit, Py, "", <<"B">>),                   \* at (310,300)
      DrawNode(P2x, Py, "", <<"q">>),                          \* at (400,300)
      DrawNode(P1x, Py, "above", <<"x">>),                     \* at (300,300), hinted
      DrawNode(P1x + 5 * Unit, Py + Unit, "above", <<"y">>),   \* at (350,290), hinted
      DrawNode(P1x + 5 * Unit, Py - Unit, "below", <<"z">>),   \* at (350,310), hinted
      DrawNode(P1x + 5 * Unit, Py, "", <<"c">>),               \* at (350,300)
      DrawNode(P1x + 5 * Unit, Py + 12 * Unit, "above", <<"w">>),  \* at (350,180), hinted
      DrawNode(P1x, Py - 20 * Unit, "", <<"f">>) }             \* at (300,500)

InitLabels ==
    InitWith({LoopDiagram},
             {Wrap("block", head \o body) :
                 head \in LabelHeads, body \in SeqsUpTo(LabelStmts, MaxStmts - 1)})
SpecLabels == InitLabels /\ [][Next]_vars

----------------------------------------------------------------------------
(* A caller that keeps its importer and calls it again *)

\* statements after the states (300,300) and (400,300)
ReuseStmts ==
    { DrawPath(<<Pt(P1x + 3 * Unit, Py), Pt(P2x - 3 * Unit, Py)>>),   \* line between the states
      DrawPath(<<Pt(P1x - 6 * Unit, Py), Pt(P1x - 3 * Unit, Py)>>),   \* start arrow into (300,300)
      DrawArc(P1x - 132, Py + 268, 234, -54, 225),                    \* loop above (300,300)
      DrawArc(P1x, Py, 180, 0, 5 * Unit),                             \* arc (300,300) .. (400,300)
      FillPath(<<Pt(P2x, Py), Pt(P2x - 80, Py + 50), Pt(P2x - 80, Py - 50)>>),  \* arrowhead at (400,300)
      DrawNode(P1x, Py, "", <<"A">>),                                 \* label of the state (300,300)
      DrawNode(P1x + 5 * Unit, Py + Unit, "above", <<"y">>) }         \* label at (350,290)

ReuseHead == <<DrawCircle(P1x, Py, 3 * Unit), DrawCircle(P2x, Py, 3 * Unit)>>

\* the texts given to the second parse: one without a block, one with a label
\* alone, one with a single state, and two with edges and labels
ReuseTexts ==
    { Wrap("bare", <<DrawCircle(P1x, Py, 3 * Unit)>>),
      Wrap("block", <<DrawNode(P1x, Py, "", <<"A">>)>>),
      Wrap("block", <<DrawCircle(P1x, Py, 3 * Unit)>>),
      Wrap("block", ReuseHead \o <<DrawArc(P1x, Py, 180, 0, 5 * Unit),
                                   DrawNode(P1x + 5 * Unit, Py + Unit, "above", <<"y">>)>>),
      Wrap("block", ReuseHead \o <<DrawPath(<<Pt(P1x + 3 * Unit, Py), Pt(P2x - 3 * Unit, Py)>>),
                                   DrawNode(P1x, Py, "", <<"A">>)>>) }

InitReuse ==
    InitWith({LoopDiagram},
             {Wrap("block", ReuseHead \o body) : body \in SeqsUpTo(ReuseStmts, MaxStmts - 1)}
             \cup ReuseTexts)
NextReuse == Next \/ ReconstructAgain \/ ParseAgain(ReuseTexts)
SpecReuse == InitReuse /\ [][NextReuse]_vars

----------------------------------------------------------------------------
(* Texts of two states followed by arcs between them *)

\* arcs between the states (300,300) and (400,300): over (350,250), under
\* (350,350), over (350,250) drawn from the right, a flat one of radius 100
\* over (350,287), one over (370,270) that starts 40 units right of the
\* first state, and three quarters of a circle over (350,179); a start arrow
\* and a label
CurveStmts ==
    { DrawArc(P1x, Py, 180, 0, 5 * Unit),
      DrawArc(P1x, Py, 180, 360, 5 * Unit),
      DrawArc(P2x, Py, 0, 180, 5 * Unit),
      DrawArc(P1x, Py, 120, 60, 10 * Unit),
      DrawArc(P1x + 4 * Unit, Py, 180, 0, 3 * Unit),
      DrawArc(P1x, Py, 225, -45, 707),
      DrawPath(<<Pt(P1x - 6 * Unit, Py), Pt(P1x - 3 * Unit, Py)>>),
      DrawNode(P1x + 5 * Unit, Py + 6 * Unit, "above", <<"y">>) }

InitCurves ==
    InitWith({LoopDiagram},
             {Wrap("block", ReuseHead \o body) : body \in SeqsUpTo(CurveStmts, MaxStmts - 1)})
SpecCurves == InitCurves /\ [][Next]_vars

----------------------------------------------------------------------------
(* Texts of statements of every kind, one or two on a line *)

ParseStmts ==
    { DrawCircle(P1x, Py, 3 * Unit),
      DrawNode(P1x, Py, "", <<"A">>),
      DrawArc(P1x - 132, Py + 268, 234, -54, 225),
      DrawPath(<<Pt(P1x - 6 * Unit, Py), Pt(P1x - 3 * Unit, Py)>>),
      FillPath(<<Pt(P1x, Py), Pt(P1x + 80, Py + 50), Pt(P1x + 80, Py - 50)>>),
      OtherLine,
      Line("draw", FALSE, "circle", P1x, Py, 3 * Unit, 0, 0, "", << >>, NoPts),   \* no [style]
      Line("draw", TRUE, "node", P1x, Py, 0, 0, 0, "", <<"A">>, NoPts),           \* [style] before a node
      DrawNode(P1x, Py, "", << >>),                                               \* nothing between the $
      DrawPath(<<Pt(P1x, Py)>>),                                                  \* one point
      FillPath(<<Pt(P1x, Py), Pt(P1x + 80, Py + 50)>>),                           \* two points
      OnOneLine(DrawArc(P2x, Py, 0, 180, 5 * Unit), DrawCircle(P2x, Py, 3 * Unit)),
      OnOneLine(DrawNode(P2x, Py, "", <<"B">>), DrawCircle(P2x, Py, 3 * Unit)),
      OnOneLine(DrawPath(<<Pt(P1x + 3 * Unit, Py), Pt(P2x - 3 * Unit, Py)>>),
                DrawNode(P1x + 5 * Unit, Py + Unit, "above", <<"x">>)),
      OnOneLine(DrawPath(<<Pt(P1x + 3 * Unit, Py), Pt(P2x - 3 * Unit, Py)>>),
                DrawArc(P2x, Py, 0, 180, 5 * Unit)),
      OnOneLine(DrawPath(<<Pt(P1x, Py)>>),
                DrawPath(<<Pt(P1x + 3 * Unit, Py), Pt(P2x - 3 * Unit, Py)>>)) }

InitParse ==
    InitWith({LoopDiagram},
             {Wrap("block", body) : body \in SeqsUpTo(ParseStmts, MaxStmts - 1)})
SpecParse == InitParse /\ [][Next]_vars

----------------------------------------------------------------------------
(* The importer of src/ and the importer of the built page on one text *)

\* statements after the states (300,300) and (400,300): an arc over (350,250)
\* from the first state, the same arc from the second, arrowheads at either
\* state, a line between the states and a label at (350,260)
BundleStmts ==
    { DrawArc(P1x, Py, 180, 0, 5 * Unit),
      DrawArc(P2x, Py, 0, 180, 5 * Unit),
      FillPath(<<Pt(P2x, Py), Pt(P2x - 80, Py + 50), Pt(P2x - 80, Py - 50)>>),
      FillPath(<<Pt(P1x, Py), Pt(P1x + 80, Py + 50), Pt(P1x + 80, Py - 50)>>),
      DrawPath(<<Pt(P1x + 3 * Unit, Py), Pt(P2x - 3 * Unit, Py)>>),
      DrawNode(P1x + 5 * Unit, Py + 4 * Unit, "above", <<"y">>) }

\* two arcs from the second state with one arrowhead there, and a line, an
\* arc and a label nearer to the arc than to the line
BundleTexts ==
    { Wrap("block", ReuseHead \o
           <<DrawArc(P2x, Py, 0, 180, 5 * Unit),
             DrawArc(P2x, Py, 0, -180, 5 * Unit),
             FillPath(<<Pt(P2x, Py), Pt(P2x - 80, Py + 50), Pt(P2x - 80, Py - 50)>>)>>),
      Wrap("block", ReuseHead \o
           <<DrawPath(<<Pt(P1x + 3 * Unit, Py), Pt(P2x - 3 * Unit, Py)>>),
             DrawArc(P1x, Py, 180, 0, 5 * Unit),
             DrawNode(P1x + 5 * Unit, Py + 4 * Unit, "above", <<"y">>)>>) }

InitBundle ==
    InitWith({LoopDiagram},
             {Wrap("block", ReuseHead \o body) : body \in SeqsUpTo(BundleStmts, MaxStmts - 1)}
             \cup BundleTexts)

NextBundle ==
    \/ ImportLaTeX
    \/ Step1
    \/ Step2
    \/ Step3
    \/ Step4
    \/ (kept.call = "" /\ Step5)
    \/ (kept.call = "" /\ Step6)
    \/ NextStep
    \/ BundleAgain
    \/ Step5Bundle
    \/ Step6Bundle
    \/ (kept.call = "bundle" /\ ImportReturn)

SpecBundle == InitBundle /\ [][NextBundle]_vars

----------------------------------------------------------------------------
(* The editor: mouse and keyboard handlers, undo and redo *)

snapToPadding == 6 * Unit           \* var snapToPadding = 6
maxHistorySize == 50                \* var maxHistorySize = 50

MaxUndo == 1           \* saved states the undo stack grows to
MaxText == 2           \* characters typed into one object
MaxMade == 2           \* states and links on the canvas when one more is made

\* the points the mouse is pressed, moved to and released at.  No link made
\* between them contains one of them, and a state that contains one of them
\* has it as its centre
ClickPoints == DrawnPositions

\* the characters typed
TypedChars == {"A"}

\* selectObject(x, y): the first state that contains the point
SelectObject(ns, mouse) ==
    LET hits == {k \in DOMAIN ns : Sq(mouse.x - ns[k].x) + Sq(mouse.y - ns[k].y) < Sq(nodeRadius)}
    IN  IF hits = {} THEN 0 ELSE CHOOSE k \in hits : \A h \in hits : k <= h

\* snapNode(node) for node = ns[k], from the i-th state on
RECURSIVE SnapNode(_, _, _)
SnapNode(ns, k, j) ==
    IF j > Len(ns) THEN ns
    ELSE IF j = k THEN SnapNode(ns, k, j + 1)
    ELSE LET x == IF Abs(ns[k].x - ns[j].x) < snapToPadding THEN ns[j].x ELSE ns[k].x
             y == IF Abs(ns[k].y - ns[j].y) < snapToPadding THEN ns[j].y ELSE ns[k].y
         IN  SnapNode([ns EXCEPT ![k].x = x, ![k].y = y], k, j + 1)

\* new TemporaryLink(from, to): a line that follows the mouse and is no link
TemporaryLink == [NoLink EXCEPT !.type = "TemporaryLink"]

\* new StartLink(node, start), start given: setAnchorPoint(start.x, start.y)
StartLinkFrom(ns, node, start) ==
    LET dx == start.x - ns[node].x
        dy == start.y - ns[node].y
    IN  [StartLink(node) EXCEPT !.deltaX = IF Abs(dx) < snapToPadding THEN 0 ELSE dx,
                                !.deltaY = IF Abs(dy) < snapToPadding THEN 0 ELSE dy]

\* no mouse button is held
Released == currentLink = NoLink /\ ~movingObject

\* the text of the selection
SelectedText ==
    IF selectedObject > 0 THEN nodes[selectedObject].text ELSE links[-selectedObject].text

\* the state object that saveState, undo and redo make of the diagram, as it
\* is after JSON.stringify and JSON.parse: states by their four fields, links
\* by their type and the fields of that type, their states by index
StateOf(ns, ls) ==
    [nodes |-> [k \in DOMAIN ns |->
                   [x |-> ns[k].x, y |-> ns[k].y, text |-> ns[k].text,
                    isAcceptState |-> ns[k].isAcceptState]],
     links |-> [k \in DOMAIN ls |->
                   IF ls[k].type = "SelfLink"
                   THEN [type |-> "SelfLink", node |-> ls[k].node, text |-> ls[k].text,
                         anchorAngle |-> ls[k].anchorAngle]
                   ELSE IF ls[k].type = "StartLink"
                   THEN [type |-> "StartLink", node |-> ls[k].node, text |-> ls[k].text,
                         deltaX |-> ls[k].deltaX, deltaY |-> ls[k].deltaY]
                   ELSE [type |-> "Link", nodeA |-> ls[k].nodeA, nodeB |-> ls[k].nodeB,
                         text |-> ls[k].text, lineAngleAdjust |-> ls[k].lineAngleAdjust,
                         parallelPart |-> ls[k].parallelPart,
                         perpendicularPart |-> ls[k].perpendicularPart]]]

\* saveState() without the shift of the oldest entry
SaveStateNoShift(stack, ns, ls) == Append(stack, StateOf(ns, ls))

\* saveState(): the stack after the push and the shift
SaveState(stack, ns, ls) ==
    LET pushed == Append(stack, StateOf(ns, ls))
    IN  IF Len(pushed) > maxHistorySize THEN Tail(pushed) ELSE pushed

\* restoreState(stateStr) that leaves a link as its constructor makes it but
\* for its text
RestoreStatePlain(state) ==
    [nodes |-> [k \in DOMAIN state.nodes |->
                   [Node(state.nodes[k].x, state.nodes[k].y) EXCEPT
                        !.text = state.nodes[k].text,
                        !.isAcceptState = state.nodes[k].isAcceptState]],
     links |-> [k \in DOMAIN state.links |->
                   LET l == state.links[k]
                   IN  IF l.type = "SelfLink" THEN [SelfLink(l.node) EXCEPT !.text = l.text]
                       ELSE IF l.type = "StartLink" THEN [StartLink(l.node) EXCEPT !.text = l.text]
                       ELSE [Link(l.nodeA, l.nodeB) EXCEPT !.text = l.text]]]

\* restoreState(stateStr): the states and links it builds
RestoreState(state) ==
    [nodes |-> [k \in DOMAIN state.nodes |->
                   [Node(state.nodes[k].x, state.nodes[k].y) EXCEPT
                        !.text = state.nodes[k].text,
                        !.isAcceptState = state.nodes[k].isAcceptState]],
     links |-> [k \in DOMAIN state.links |->
                   LET l == state.links[k]
                   IN  IF l.type = "SelfLink"
                       THEN [SelfLink(l.node) EXCEPT !.anchorAngle = l.anchorAngle, !.text = l.text]
                       ELSE IF l.type = "StartLink"
                       THEN [StartLink(l.node) EXCEPT !.deltaX = l.deltaX, !.deltaY = l.deltaY,
                                                      !.text = l.text]
                       ELSE [Link(l.nodeA, l.nodeB) EXCEPT
                                !.parallelPart = l.parallelPart,
                                !.perpendicularPart = l.perpendicularPart,
                                !.text = l.text,
                                !.lineAngleAdjust = l.lineAngleAdjust]]]

\* undo(), on Ctrl+Z
Undo ==
    /\ pc = "idle" /\ Released
    /\ Len(undoStack) > 0
    /\ redoStack' = Append(redoStack, StateOf(nodes, links))
    /\ LET restored == RestoreState(undoStack[Len(undoStack)])
       IN  nodes' = restored.nodes /\ links' = restored.links
    /\ undoStack' = SubSeq(undoStack, 1, Len(undoStack) - 1)
    /\ selectedObject' = 0
    /\ UNCHANGED <<latexInput, importModal, importError, importerVars, pc, i, nodePositions,
                   result, outcome, exported, kept, listed, mouseVars, simVars>>

\* redo(), on Ctrl+Y
Redo ==
    /\ pc = "idle" /\ Released
    /\ Len(redoStack) > 0
    /\ undoStack' = Append(undoStack, StateOf(nodes, links))
    /\ LET restored == RestoreState(redoStack[Len(redoStack)])
       IN  nodes' = restored.nodes /\ links' = restored.links
    /\ redoStack' = SubSeq(redoStack, 1, Len(redoStack) - 1)
    /\ selectedObject' = 0
    /\ UNCHANGED <<latexInput, importModal, importError, importerVars, pc, i, nodePositions,
                   result, outcome, exported, kept, listed, mouseVars, simVars>>

\* canvas.ondblclick: a new state on the empty canvas, the accept state of a
\* state toggled
DoubleClick ==
    /\ pc = "idle" /\ importModal = "none" /\ Released
    /\ \E mouse \in ClickPoints :
          LET hit == SelectObject(nodes, mouse)
          IN  IF hit = 0
              THEN /\ Len(nodes) + Len(links) < MaxMade
                   /\ nodes' = Append(nodes, Node(mouse.x, mouse.y))
                   /\ selectedObject' = Len(nodes) + 1
              ELSE /\ nodes' = [nodes EXCEPT ![hit].isAcceptState = ~@]
                   /\ selectedObject' = hit
    /\ UNCHANGED <<latexInput, importModal, importError, links, importerVars, pc, i,
                   nodePositions, result, outcome, exported, kept, keybindVars, mouseVars, simVars>>

\* canvas.onmousedown, with the shift key held or not.  A state is pressed at
\* its centre, so that setMouseStart leaves its mouse offsets 0 and a loop
\* begun on it has the anchor angle atan2(0, 0) = 0
MouseDown ==
    /\ pc = "idle" /\ importModal = "none" /\ Released
    /\ \E mouse \in ClickPoints, shift \in BOOLEAN :
          LET hit == SelectObject(nodes, mouse)
          IN  /\ shift => Len(nodes) + Len(links) < MaxMade
              /\ selectedObject' = hit
              /\ originalClick' = mouse
              /\ IF hit # 0
                 THEN IF shift
                      THEN currentLink' = SelfLink(hit) /\ movingObject' = FALSE
                      ELSE movingObject' = TRUE /\ UNCHANGED currentLink
                 ELSE /\ movingObject' = FALSE
                      /\ IF shift THEN currentLink' = TemporaryLink ELSE UNCHANGED currentLink
    /\ UNCHANGED <<latexInput, importModal, importError, nodes, links, importerVars, pc, i,
                   nodePositions, result, outcome, exported, kept, keybindVars, simVars>>

\* canvas.onmousemove while a button is held
MouseMove ==
    /\ pc = "idle" /\ importModal = "none" /\ ~Released
    /\ \E mouse \in ClickPoints :
          LET targetNode == SelectObject(nodes, mouse)
          IN  /\ IF currentLink # NoLink
                 THEN currentLink' =
                         IF selectedObject = 0
                         THEN IF targetNode # 0 THEN StartLinkFrom(nodes, targetNode, originalClick)
                              ELSE TemporaryLink
                         ELSE IF targetNode = selectedObject THEN SelfLink(selectedObject)
                         ELSE IF targetNode # 0 THEN Link(selectedObject, targetNode)
                         ELSE TemporaryLink
                 ELSE UNCHANGED currentLink
              /\ IF movingObject
                 THEN nodes' = SnapNode([nodes EXCEPT ![selectedObject].x = mouse.x,
                                                      ![selectedObject].y = mouse.y],
                                        selectedObject, 1)
                 ELSE UNCHANGED nodes
    /\ UNCHANGED <<latexInput, importModal, importError, links, selectedObject, importerVars, pc, i,
                   nodePositions, result, outcome, exported, kept, keybindVars,
                   movingObject, originalClick, simVars>>

\* canvas.onmouseup
MouseUp ==
    /\ pc = "idle" /\ importModal = "none" /\ ~Released
    /\ movingObject' = FALSE
    /\ IF currentLink # NoLink /\ currentLink.type # "TemporaryLink"
       THEN /\ selectedObject' = - (Len(links) + 1)
            /\ links' = Append(links, currentLink)
       ELSE UNCHANGED <<selectedObject, links>>
    /\ currentLink' = NoLink
    /\ UNCHANGED <<latexInput, importModal, importError, nodes, importerVars, pc, i,
                   nodePositions, result, outcome, exported, kept, keybindVars, originalClick, simVars>>

\* the diagram with the text of the selection replaced
WithSelectedText(text) ==
    IF selectedObject > 0
    THEN [nodes |-> [nodes EXCEPT ![selectedObject].text = text], links |-> links]
    ELSE [nodes |-> nodes, links |-> [links EXCEPT ![-selectedObject].text = text]]

\* handleKeyPress of a printable character, the canvas having the focus: the
\* state is saved before the first character of a text only
KeyPress ==
    /\ pc = "idle" /\ importModal = "none" /\ Released
    /\ selectedObject # 0
    /\ Len(SelectedText) < MaxText
    /\ Len(SelectedText) = 0 => Len(undoStack) < MaxUndo
    /\ \E char \in TypedChars :
          /\ nodes' = WithSelectedText(Append(SelectedText, char)).nodes
          /\ links' = WithSelectedText(Append(SelectedText, char)).links
    /\ IF Len(SelectedText) = 0
       THEN undoStack' = SaveState(undoStack, nodes, links) /\ redoStack' = << >>
       ELSE UNCHANGED <<undoStack, redoStack>>
    /\ UNCHANGED <<latexInput, importModal, importError, selectedObject, importerVars, pc, i,
                   nodePositions, result, outcome, exported, kept, listed, mouseVars, simVars>>

\* handleKeyDown of Backspace, the canvas having the focus, while the undo
\* stack holds fewer than cap states
BackspaceUpTo(cap) ==
    /\ pc = "idle" /\ importModal = "none" /\ Released
    /\ selectedObject # 0
    /\ Len(undoStack) < cap
    /\ undoStack' = SaveState(undoStack, nodes, links) /\ redoStack' = << >>
    /\ LET text == SubSeq(SelectedText, 1, Len(SelectedText) - 1)
       IN  nodes' = WithSelectedText(text).nodes /\ links' = WithSelectedText(text).links
    /\ UNCHANGED <<latexInput, importModal, importError, selectedObject, importerVars, pc, i,
                   nodePositions, result, outcome, exported, kept, listed, mouseVars, simVars>>

Backspace == BackspaceUpTo(MaxUndo)

\* a link once the state k has been spliced out of nodes
AfterSplice(link, k) ==
    [link EXCEPT !.node = IF @ > k THEN @ - 1 ELSE @,
                 !.nodeA = IF @ > k THEN @ - 1 ELSE @,
                 !.nodeB = IF @ > k THEN @ - 1 ELSE @]

\* deleteSelectedWithUndo(), on the Delete key
DeleteSelected ==
    /\ pc = "idle" /\ importModal = "none" /\ Released
    /\ selectedObject # 0
    /\ Len(undoStack) < MaxUndo
    /\ undoStack' = SaveState(undoStack, nodes, links) /\ redoStack' = << >>
    /\ IF selectedObject > 0
       THEN LET Stays(link) == /\ ~(link.type = "Link" /\ selectedObject \in {link.nodeA, link.nodeB})
                               /\ ~(link.type # "Link" /\ link.node = selectedObject)
                left == SelectSeq(links, Stays)
            IN  /\ nodes' = SubSeq(nodes, 1, selectedObject - 1)
                             \o SubSeq(nodes, selectedObject + 1, Len(nodes))
                /\ links' = [k \in DOMAIN left |-> AfterSplice(left[k], selectedObject)]
       ELSE /\ links' = SubSeq(links, 1, - selectedObject - 1)
                             \o SubSeq(links, - selectedObject + 1, Len(links))
            /\ UNCHANGED nodes
    /\ selectedObject' = 0
    /\ UNCHANGED <<latexInput, importModal, importError, importerVars, pc, i,
                   nodePositions, result, outcome, exported, kept, listed, mouseVars, simVars>>

\* duplicateSelected(), on Ctrl+D: the state is saved whatever is selected, a
\* state is copied 50 units right and down
DuplicateSelected ==
    /\ pc = "idle" /\ Released
    /\ selectedObject # 0
    /\ Len(undoStack) < MaxUndo
    /\ undoStack' = SaveState(undoStack, nodes, links) /\ redoStack' = << >>
    /\ IF selectedObject > 0
       THEN /\ Len(nodes) + Len(links) < MaxMade
            /\ nodes' = Append(nodes, [Node(nodes[selectedObject].x + 50 * Unit,
                                            nodes[selectedObject].y + 50 * Unit) EXCEPT
                                          !.text = nodes[selectedObject].text,
                                          !.isAcceptState = nodes[selectedObject].isAcceptState])
            /\ selectedObject' = Len(nodes) + 1
       ELSE UNCHANGED <<nodes, selectedObject>>
    /\ UNCHANGED <<latexInput, importModal, importError, links, importerVars, pc, i,
                   nodePositions, result, outcome, exported, kept, listed, mouseVars, simVars>>

\* clearCanvas() of the keybind system, the later of the two declarations in
\* the page's script
ClearCanvas ==
    /\ pc = "idle" /\ importModal = "none" /\ Released
    /\ Len(nodes) > 0 \/ Len(links) > 0
    /\ Len(undoStack) < MaxUndo
    /\ undoStack' = SaveState(undoStack, nodes, links) /\ redoStack' = << >>
    /\ nodes' = << >> /\ links' = << >>
    /\ selectedObject' = 0
    /\ UNCHANGED <<latexInput, importModal, importError, importerVars, pc, i,
                   nodePositions, result, outcome, exported, kept, listed, mouseVars, simVars>>

\* the pasted text: two states, a loop, a start arrow, an edge and an arc
\* between them, a label
EditorText ==
    Wrap("block", ReuseHead \o <<DrawArc(P1x - 132, Py + 268, 234, -54, 225),
                                 DrawPath(<<Pt(P1x - 6 * Unit, Py), Pt(P1x - 3 * Unit, Py)>>),
                                 DrawPath(<<Pt(P1x + 3 * Unit, Py), Pt(P2x - 3 * Unit, Py)>>),
                                 DrawArc(P1x, Py, 180, 0, (P2x - P1x) \div 2),
                                 DrawNode((P1x + P2x) \div 2, Py + Unit, "above", <<"x">>)>>)

\* the editor on an empty canvas, or on a drawn diagram with the import modal
\* open and the text pasted
InitEditor ==
    /\ \/ /\ importModal = "none" /\ latexInput = << >>
          /\ nodes = << >> /\ links = << >>
       \/ /\ importModal = "block" /\ latexInput = EditorText
          /\ nodes = LoopDiagram.nodes /\ links = LoopDiagram.links
    /\ importError = ""
    /\ selectedObject = 0
    /\ circles = << >> /\ texts = << >> /\ lines = << >> /\ arcs = << >> /\ fills = << >>
    /\ pc = "idle"
    /\ i = 1
    /\ nodePositions = << >>
    /\ result = EmptyGraph
    /\ outcome = "none"
    /\ exported = [saved |-> FALSE, graph |-> EmptyGraph]
    /\ kept = NoKept
    /\ undoStack = << >> /\ redoStack = << >>
    /\ listed = NoList
    /\ currentLink = NoLink /\ movingObject = FALSE /\ originalClick = Pt(0, 0)
    /\ simulationActive = FALSE /\ currentSimulation = NoSimulation /\ simError = << >>

NextEditor ==
    \/ DoubleClick
    \/ MouseDown
    \/ MouseMove
    \/ MouseUp
    \/ KeyPress
    \/ Backspace
    \/ DeleteSelected
    \/ DuplicateSelected
    \/ ClearCanvas
    \/ Undo
    \/ Redo
    \/ ImportLaTeX
    \/ Step1
    \/ Step2
    \/ Step3
    \/ Step4
    \/ Step5
    \/ Step6
    \/ NextStep
    \/ ImportReturn

SpecEditor == InitEditor /\ [][NextEditor]_vars

----------------------------------------------------------------------------
(* The undo history filled to its limit *)

\* the undo stack may grow past maxHistorySize if saveState lets it
HistoryCap == maxHistorySize + 1

\* a drawn diagram: two states, a bent and labelled link between them, a loop
\* above the second state, a start arrow from the left into the first
HistoryDiagram ==
    [nodes |-> <<Node(Unit * Unit, Unit * Unit),
                 [Node(2 * Unit * Unit, Unit * Unit) EXCEPT !.isAcceptState = TRUE]>>,
     links |-> <<[Link(1, 2) EXCEPT !.text = <<"x">>, !.parallelPart = 30,
                                    !.perpendicularPart = (-20) * Unit,
                                    !.lineAngleAdjust = 180],
                 [SelfLink(2) EXCEPT !.anchorAngle = -90, !.text = <<"x">>],
                 [StartLink(1) EXCEPT !.deltaX = (-60) * Unit]>>]

\* the editor holds the drawn diagram, one of its states or its first link is
\* selected, nothing has been saved
InitHistory ==
    /\ latexInput = << >>
    /\ importModal = "none"
    /\ importError = ""
    /\ nodes = HistoryDiagram.nodes /\ links = HistoryDiagram.links
    /\ selectedObject \in {1, -1}
    /\ circles = << >> /\ texts = << >> /\ lines = << >> /\ arcs = << >> /\ fills = << >>
    /\ pc = "idle"
    /\ i = 1
    /\ nodePositions = << >>
    /\ result = EmptyGraph
    /\ outcome = "none"
    /\ exported = [saved |-> FALSE, graph |-> EmptyGraph]
    /\ kept = NoKept
    /\ undoStack = << >> /\ redoStack = << >>
    /\ listed = NoList
    /\ currentLink = NoLink /\ movingObject = FALSE /\ originalClick = Pt(0, 0)
    /\ simulationActive = FALSE /\ currentSimulation = NoSimulation /\ simError = << >>

\* Backspace whenever something is selected, so that the stack reaches its
\* limit
SaveAtBackspace == BackspaceUpTo(HistoryCap)

NextHistory ==
    \/ MouseDown
    \/ MouseUp
    \/ SaveAtBackspace
    \/ Undo
    \/ Redo

SpecHistory == InitHistory /\ [][NextHistory]_vars

----------------------------------------------------------------------------
(* The adjacency list *)

\* text.trim()
RECURSIVE TrimStart(_)
TrimStart(text) == IF text # << >> /\ Head(text) = " " THEN TrimStart(Tail(text)) ELSE text
RECURSIVE TrimEnd(_)
TrimEnd(text) ==
    IF text # << >> /\ text[Len(text)] = " " THEN TrimEnd(SubSeq(text, 1, Len(text) - 1)) ELSE text
Trim(text) == TrimEnd(TrimStart(text))

\* the decimal digits of a counter, as 'q' + counter writes them
DecimalDigits == <<"0", "1", "2", "3", "4", "5", "6", "7", "8", "9">>
RECURSIVE Decimal(_)
Decimal(n) ==
    IF n < 10 THEN <<DecimalDigits[n + 1]>>
    ELSE Decimal(n \div 10) \o <<DecimalDigits[(n % 10) + 1]>>

\* generateNodeLabels, first pass: the trimmed text, or << >> for null
FirstPass(ns) ==
    [k \in DOMAIN ns |-> IF Trim(ns[k].text) # << >> THEN Trim(ns[k].text) ELSE << >>]

\* the do-while loop: the first counter from counter on whose label is unused
RECURSIVE FallbackCounter(_, _)
FallbackCounter(usedLabels, counter) ==
    IF (<<"q">> \o Decimal(counter)) \in usedLabels
    THEN FallbackCounter(usedLabels, counter + 1)
    ELSE counter

\* generateNodeLabels, second pass from labels[k] on
RECURSIVE SecondPass(_, _, _, _)
SecondPass(labels, usedLabels, counter, k) ==
    IF k > Len(labels) THEN labels
    ELSE IF labels[k] = << >>
    THEN LET found == FallbackCounter(usedLabels, counter)
             fallbackLabel == <<"q">> \o Decimal(found)
         IN  SecondPass([labels EXCEPT ![k] = fallbackLabel], usedLabels \cup {fallbackLabel},
                        found + 1, k + 1)
    ELSE SecondPass(labels, usedLabels, counter, k + 1)

GenerateNodeLabels(ns) ==
    LET first == FirstPass(ns)
    IN  SecondPass(first, {first[k] : k \in DOMAIN first} \ {<< >>}, 0, 1)

\* buildAdjacencyList, the loop over the links from links[k] on
RECURSIVE Populate(_, _, _, _, _)
Populate(adjacency, labels, ls, directed, k) ==
    IF k > Len(ls) THEN adjacency
    ELSE IF ls[k].type = "Link"
    THEN LET a == labels[ls[k].nodeA]
             b == labels[ls[k].nodeB]
             forth == [adjacency EXCEPT ![a] = Append(@, b)]
         IN  Populate(IF directed THEN forth ELSE [forth EXCEPT ![b] = Append(@, a)],
                      labels, ls, directed, k + 1)
    ELSE IF ls[k].type = "SelfLink"
    THEN Populate([adjacency EXCEPT ![labels[ls[k].node]] = Append(@, labels[ls[k].node])],
                  labels, ls, directed, k + 1)
    ELSE Populate(adjacency, labels, ls, directed, k + 1)

\* buildAdjacencyList(labels): one entry per label
BuildAdjacencyList(labels, ls, directed) ==
    Populate([label \in {labels[k] : k \in DOMAIN labels} |-> << >>], labels, ls, directed, 1)

\* exportAdjacencyList(), on Ctrl+L, with the value the global directed has
ExportAdjacencyList ==
    /\ pc = "idle" /\ Released
    /\ \E directed \in BOOLEAN :
          listed' = IF Len(nodes) = 0 THEN NoList
                    ELSE LET labels == GenerateNodeLabels(nodes)
                         IN  [labels |-> labels,
                              adjacency |-> BuildAdjacencyList(labels, links, directed)]
    /\ exported' = [exported EXCEPT !.saved = FALSE]
    /\ UNCHANGED <<latexInput, importModal, importError, editorVars, importerVars, pc, i,
                   nodePositions, result, outcome, kept, undoStack, redoStack, mouseVars, simVars>>

\* the texts states carry: none, a name, the name with a space after it, the
\* first fallback label, a space
ListTexts == {<< >>, <<"A">>, <<"A", " ">>, <<"q", "0">>, <<" ">>}

\* diagrams of up to MaxNodes + 1 states in a row, with one link or none
ListDiagrams(maxNodes) ==
    {[nodes |-> [k \in DOMAIN ts |-> [Node(k * Unit * Unit, Unit * Unit) EXCEPT !.text = ts[k]]],
      links |-> ls] :
        ts \in SeqsUpTo(ListTexts, maxNodes + 1),
        ls \in {<< >>, <<SelfLink(1)>>, <<Link(1, 2)>>, <<Link(2, 1), SelfLink(2)>>}}

InitLists ==
    /\ latexInput = << >>
    /\ importModal = "none"
    /\ importError = ""
    /\ \E d \in {g \in ListDiagrams(MaxNodes) : WellFormed(g)} : nodes = d.nodes /\ links = d.links
    /\ selectedObject = 0
    /\ circles = << >> /\ texts = << >> /\ lines = << >> /\ arcs = << >> /\ fills = << >>
    /\ pc = "idle"
    /\ i = 1
    /\ nodePositions = << >>
    /\ result = EmptyGraph
    /\ outcome = "none"
    /\ exported = [saved |-> FALSE, graph |-> EmptyGraph]
    /\ kept = NoKept
    /\ undoStack = << >> /\ redoStack = << >>
    /\ listed = NoList
    /\ currentLink = NoLink /\ movingObject = FALSE /\ originalClick = Pt(0, 0)
    /\ simulationActive = FALSE /\ currentSimulation = NoSimulation /\ simError = << >>

NextLists == ExportAdjacencyList

SpecLists == InitLists /\ [][NextLists]_vars

----------------------------------------------------------------------------
(* The simulator: simulator.js and the handlers of the simulation panel *)

MsgNoStates   == "No states in FSM. Add at least one state."
MsgNoStart    == "No start state defined. Add a start arrow to a state by shift-dragging from empty space to a node."
MsgManyStarts == "Multiple start states detected. Only one start state allowed."
MsgNoStartState == "Could not find start state."

\* text.split(',')
RECURSIVE SplitAtCommas(_, _)
SplitAtCommas(text, symbol) ==
    IF text = << >> THEN <<symbol>>
    ELSE IF Head(text) = "," THEN <<symbol>> \o SplitAtCommas(Tail(text), << >>)
    ELSE SplitAtCommas(Tail(text), Append(symbol, Head(text)))

\* parseTransitionLabel(text): the symbols between the commas, trimmed, the
\* empty ones left out
ParseTransitionLabel(text) ==
    LET parts == SplitAtCommas(text, << >>)
        trimmed == [k \in DOMAIN parts |-> Trim(parts[k])]
        NonEmpty(symbol) == Len(symbol) > 0
    IN  SelectSeq(trimmed, NonEmpty)

\* the entries buildTransitionTable pushes for the state k from the link
\* ls[j]: one for every symbol of its label
LinkEntries(ls, j, k) ==
    LET link == ls[j]
        symbols == ParseTransitionLabel(link.text)
        from == IF link.type = "Link" THEN link.nodeA
                ELSE IF link.type = "SelfLink" THEN link.node ELSE 0
        to == IF link.type = "Link" THEN link.nodeB ELSE link.node
    IN  IF from = k
        THEN [m \in DOMAIN symbols |-> [symbol |-> symbols[m], targetIndex |-> to, link |-> j]]
        ELSE << >>

RECURSIVE TableRow(_, _, _)
TableRow(ls, j, k) ==
    IF j > Len(ls) THEN << >> ELSE LinkEntries(ls, j, k) \o TableRow(ls, j + 1, k)

\* buildTransitionTable(nodes, links): for every state the entries pushed
\* for it, in the order of the pushes; table[k][symbol] is the entries of
\* table[k] with that symbol.  States and links are held by their index
BuildTransitionTable(ns, ls) == [k \in DOMAIN ns |-> TableRow(ls, 1, k)]

\* a variant of the lookup below that knows one transition a symbol
FirstTransition(table, state, char) ==
    LET Matches(entry) == entry.symbol = <<char>>
        all == SelectSeq(table[state], Matches)
    IN  IF Len(all) > 1 THEN <<all[1]>> ELSE all

\* simState.transitionTable[currentState][currentChar], << >> when undefined
Transitions(table, state, char) ==
    LET Matches(entry) == entry.symbol = <<char>>
    IN  SelectSeq(table[state], Matches)

\* the StartLinks among the links
StartLinks(ls) == {j \in DOMAIN ls : ls[j].type = "StartLink"}

\* findStartState(nodes, links): the state of the first StartLink; 0 is -1
FindStartState(ns, ls) ==
    IF StartLinks(ls) = {} THEN 0
    ELSE ls[CHOOSE j \in StartLinks(ls) : \A m \in StartLinks(ls) : j <= m].node

\* a variant of the validation below that takes several start arrows
ValidateFSMAnyStarts(ns, ls) ==
    (IF Len(ns) = 0 THEN <<MsgNoStates>> ELSE << >>)
    \o (IF Cardinality(StartLinks(ls)) = 0 THEN <<MsgNoStart>> ELSE << >>)

\* validateFSM(nodes, links): its errors; the FSM is valid when there are
\* none.  The warnings, which go to the console, are left out
ValidateFSM(ns, ls) ==
    (IF Len(ns) = 0 THEN <<MsgNoStates>> ELSE << >>)
    \o (IF Cardinality(StartLinks(ls)) = 0 THEN <<MsgNoStart>>
        ELSE IF Cardinality(StartLinks(ls)) > 1 THEN <<MsgManyStarts>>
        ELSE << >>)

\* new SimulationState(inputString, startNodeIndex, transitionTable);
\* isPlaying and speed, which the auto-play uses, are left out
SimulationState(inputString, startNodeIndex, transitionTable) ==
    [exists |-> TRUE, inputString |-> inputString, currentPosition |-> 0,
     currentStates |-> <<startNodeIndex>>,
     paths |-> <<[states |-> <<startNodeIndex>>, transitions |-> << >>, status |-> "active",
                  errorMessage |-> NoMessage]>>,
     isComplete |-> FALSE, result |-> "", errorMessage |-> NoMessage,
     transitionTable |-> transitionTable, activeLinks |-> << >>]

\* initializeSimulation(inputString, nodes, links)
InitializeSimulation(inputString, ns, ls) ==
    LET errors == ValidateFSM(ns, ls)
        startIndex == FindStartState(ns, ls)
        simState == SimulationState(inputString, startIndex, BuildTransitionTable(ns, ls))
        status == IF ns[startIndex].isAcceptState THEN "accepted" ELSE "rejected"
    IN  IF errors # << >>
        THEN [success |-> FALSE, errors |-> errors, simulation |-> NoSimulation]
        ELSE IF startIndex = 0
        THEN [success |-> FALSE, errors |-> <<MsgNoStartState>>, simulation |-> NoSimulation]
        ELSE IF Len(inputString) = 0
        THEN [success |-> TRUE, errors |-> << >>,
              simulation |-> [simState EXCEPT !.isComplete = TRUE, !.result = status,
                                              !.paths[1].status = status]]
        ELSE [success |-> TRUE, errors |-> << >>, simulation |-> simState]

\* array with x pushed unless array.indexOf(x) finds it
PushNew(array, x) == IF \E k \in DOMAIN array : array[k] = x THEN array ELSE Append(array, x)

\* the paths that follow path along the transitions from the t-th on, when
\* there are several
RECURSIVE Branches(_, _, _)
Branches(path, transitions, t) ==
    IF t > Len(transitions) THEN << >>
    ELSE <<[states |-> Append(path.states, transitions[t].targetIndex),
            transitions |-> Append(path.transitions, transitions[t].link),
            status |-> "active", errorMessage |-> NoMessage]>>
         \o Branches(path, transitions, t + 1)

RECURSIVE PushAll(_, _, _)
PushAll(array, xs, t) == IF t > Len(xs) THEN array ELSE PushAll(PushNew(array, xs[t]), xs, t + 1)

\* stepSimulation, the loop over simState.paths from the p-th path on.  acc
\* holds simState.paths with what the loop has changed in the path objects,
\* newPaths, newCurrentStates and activeLinksThisStep, and whether the loop
\* has ended in a TypeError, reading the text of a state nodes does not have
RECURSIVE ProcessPaths(_, _, _, _, _)
ProcessPaths(simState, ns, currentChar, p, acc) ==
    IF p > Len(simState.paths) THEN acc
    ELSE LET path == simState.paths[p]
             currentState == path.states[Len(path.states)]
             transitions == Transitions(simState.transitionTable, currentState, currentChar)
             targets == [t \in DOMAIN transitions |-> transitions[t].targetIndex]
             used == [t \in DOMAIN transitions |-> transitions[t].link]
             rejected == [path EXCEPT !.status = "rejected",
                                      !.errorMessage = [symbol |-> currentChar, state |-> currentState]]
             extended == [path EXCEPT !.states = Append(@, targets[1]),
                                      !.transitions = Append(@, used[1])]
         IN  IF path.status # "active"
             THEN ProcessPaths(simState, ns, currentChar, p + 1,
                               [acc EXCEPT !.newPaths = Append(@, path)])
             ELSE IF Len(transitions) = 0
             THEN IF currentState \notin DOMAIN ns
                  THEN [acc EXCEPT !.paths[p].status = "rejected", !.thrown = TRUE]
                  ELSE ProcessPaths(simState, ns, currentChar, p + 1,
                                    [acc EXCEPT !.paths[p] = rejected,
                                                !.newPaths = Append(@, rejected)])
             ELSE ProcessPaths(simState, ns, currentChar, p + 1,
                      [acc EXCEPT !.paths[p] = IF Len(transitions) = 1 THEN extended ELSE @,
                                  !.newPaths = IF Len(transitions) = 1 THEN Append(@, extended)
                                               ELSE @ \o Branches(path, transitions, 1),
                                  !.newCurrentStates = PushAll(@, targets, 1),
                                  !.activeLinks = PushAll(@, used, 1)])

\* stepSimulation, the loop that gives the paths still active their final
\* status, from the p-th path on; it ends in a TypeError when nodes does not
\* have the last state of such a path
RECURSIVE FinishPaths(_, _, _, _)
FinishPaths(paths, ns, p, acc) ==
    IF p > Len(paths) THEN acc
    ELSE IF acc.paths[p].status # "active" THEN FinishPaths(paths, ns, p + 1, acc)
    ELSE LET finalState == paths[p].states[Len(paths[p].states)]
         IN  IF finalState \notin DOMAIN ns THEN [acc EXCEPT !.thrown = TRUE]
             ELSE IF ns[finalState].isAcceptState
             THEN FinishPaths(paths, ns, p + 1,
                              [acc EXCEPT !.paths[p].status = "accepted", !.anyAccepted = TRUE])
             ELSE FinishPaths(paths, ns, p + 1, [acc EXCEPT !.paths[p].status = "rejected"])

\* the errorMessage of the last path that has one
LastMessage(paths) ==
    LET with == {p \in DOMAIN paths : paths[p].errorMessage # NoMessage}
    IN  IF with = {} THEN NoMessage
        ELSE paths[CHOOSE p \in with : \A q \in with : q <= p].errorMessage

\* stepSimulation past its look at isComplete: simState as the call leaves
\* it, and whether the call has ended in a TypeError
StepFrom(simState, ns) ==
    LET currentChar == IF simState.currentPosition + 1 \in DOMAIN simState.inputString
                       THEN simState.inputString[simState.currentPosition + 1]
                       ELSE "undefined"
        loop == ProcessPaths(simState, ns, currentChar, 1,
                             [paths |-> simState.paths, newPaths |-> << >>,
                              newCurrentStates |-> << >>, activeLinks |-> << >>,
                              thrown |-> FALSE])
        stepped == [simState EXCEPT !.paths = loop.newPaths,
                                    !.currentStates = loop.newCurrentStates,
                                    !.activeLinks = loop.activeLinks,
                                    !.currentPosition = @ + 1]
        atEnd == stepped.currentPosition >= Len(simState.inputString)
        final == FinishPaths(stepped.paths, ns, 1,
                             [paths |-> stepped.paths, anyAccepted |-> FALSE, thrown |-> FALSE])
        allPathsRejected == \A p \in DOMAIN stepped.paths : stepped.paths[p].status = "rejected"
    IN  IF loop.thrown
        THEN [simulation |-> [simState EXCEPT !.paths = loop.paths], thrown |-> TRUE]
        ELSE IF atEnd
        THEN IF final.thrown
             THEN [simulation |-> [stepped EXCEPT !.isComplete = TRUE, !.paths = final.paths],
                   thrown |-> TRUE]
             ELSE [simulation |-> [stepped EXCEPT
                                      !.isComplete = TRUE, !.paths = final.paths,
                                      !.result = IF final.anyAccepted THEN "accepted"
                                                 ELSE "rejected"],
                   thrown |-> FALSE]
        ELSE IF allPathsRejected
        THEN [simulation |-> [stepped EXCEPT !.isComplete = TRUE, !.result = "stuck",
                                             !.errorMessage = LastMessage(stepped.paths)],
              thrown |-> FALSE]
        ELSE [simulation |-> stepped, thrown |-> FALSE]

\* stepSimulation(simState, nodes): simState as the call leaves it, and
\* whether the call has ended in a TypeError
StepOutcome(simState, ns) ==
    IF simState.isComplete THEN [simulation |-> simState, thrown |-> FALSE]
    ELSE StepFrom(simState, ns)

\* a variant of the call below that does not look at isComplete first
StepSimulationAlways(simState, ns) == StepFrom(simState, ns).simulation

StepSimulation(simState, ns) == StepOutcome(simState, ns).simulation

\* the input strings typed into the panel
MaxInput == 2
SimSymbols == {"a", "b"}
SimInputs == SeqsUpTo(SimSymbols, MaxInput)

\* toggleSimulationMode(), on Ctrl+R: enterSimulationMode, or
\* exitSimulationMode with its handleResetSimulation
ToggleSimulationMode ==
    /\ pc = "idle"
    /\ simulationActive' = ~simulationActive
    /\ IF simulationActive
       THEN currentSimulation' = NoSimulation /\ simError' = << >>
       ELSE UNCHANGED <<currentSimulation, simError>>
    /\ UNCHANGED <<latexInput, importModal, importError, editorVars, importerVars, pc, i,
                   nodePositions, result, outcome, exported, kept, keybindVars, mouseVars>>

\* handleStartSimulation(), on the Start button, which is enabled while no
\* simulation has been started; the result display shows the errors, or the
\* final result of a simulation that is complete at once
HandleStartSimulation ==
    /\ pc = "idle" /\ simulationActive /\ ~currentSimulation.exists
    /\ \E inputString \in SimInputs :
          LET started == InitializeSimulation(inputString, nodes, links)
          IN  IF ~started.success
              THEN simError' = started.errors /\ UNCHANGED currentSimulation
              ELSE /\ currentSimulation' = started.simulation
                   /\ simError' = IF started.simulation.isComplete THEN << >> ELSE simError
    /\ UNCHANGED <<latexInput, importModal, importError, editorVars, importerVars, pc, i,
                   nodePositions, result, outcome, exported, kept, keybindVars, mouseVars,
                   simulationActive>>

\* handleStepSimulation(), on the Step button or the space key
HandleStepSimulation ==
    /\ pc = "idle" /\ simulationActive
    /\ IF ~currentSimulation.exists \/ currentSimulation.isComplete
       THEN UNCHANGED <<currentSimulation, simError>>
       ELSE LET stepped == StepOutcome(currentSimulation, nodes)
            IN  /\ currentSimulation' = stepped.simulation
                /\ simError' = IF ~stepped.thrown /\ stepped.simulation.isComplete
                               THEN << >> ELSE simError
    /\ UNCHANGED <<latexInput, importModal, importError, editorVars, importerVars, pc, i,
                   nodePositions, result, outcome, exported, kept, keybindVars, mouseVars,
                   simulationActive>>

\* stepSimulation(currentSimulation, nodes) called by a caller that does not
\* look at isComplete first
StepSimulationCall ==
    /\ pc = "idle" /\ currentSimulation.exists
    /\ currentSimulation' = StepSimulation(currentSimulation, nodes)
    /\ UNCHANGED <<latexInput, importModal, importError, editorVars, importerVars, pc, i,
                   nodePositions, result, outcome, exported, kept, keybindVars, mouseVars,
                   simulationActive, simError>>

\* handleResetSimulation(), on the Reset button, enabled once a simulation
\* has been started
HandleResetSimulation ==
    /\ pc = "idle" /\ simulationActive /\ currentSimulation.exists
    /\ currentSimulation' = NoSimulation
    /\ simError' = << >>
    /\ UNCHANGED <<latexInput, importModal, importError, editorVars, importerVars, pc, i,
                   nodePositions, result, outcome, exported, kept, keybindVars, mouseVars,
                   simulationActive>>

\* the links drawn between a plain state at (300,300) and an accepting
\* state at (400,300), in the order of their drawing
MaxSimLinks == 3
SimLinks ==
    <<StartLink(1),
      [SelfLink(1) EXCEPT !.text = <<"a">>],
      [Link(1, 2) EXCEPT !.text = <<"a">>],
      [Link(2, 1) EXCEPT !.text = <<"b">>],
      [SelfLink(2) EXCEPT !.text = <<"a", ",", " ", "b", ",">>],
      StartLink(2)>>

\* the links of SimLinks at the indices of chosen, in their order
RECURSIVE Chosen(_, _)
Chosen(chosen, j) ==
    IF j > Len(SimLinks) THEN << >>
    ELSE (IF j \in chosen THEN <<SimLinks[j]>> ELSE << >>) \o Chosen(chosen, j + 1)

\* the machines: the empty canvas, the two states with up to MaxSimLinks of
\* the links, and the first state alone with those of its links
SimDiagrams ==
    LET two == <<Node(P1x * scale, (-Py) * scale),
                 [Node(P2x * scale, (-Py) * scale) EXCEPT !.isAcceptState = TRUE]>>
        sets == {chosen \in SUBSET DOMAIN SimLinks : Cardinality(chosen) <= MaxSimLinks}
    IN  {EmptyGraph}
        \cup {[nodes |-> two, links |-> Chosen(chosen, 1)] : chosen \in sets}
        \cup {[nodes |-> <<two[1]>>, links |-> Chosen(chosen, 1)] : chosen \in SUBSET {1, 2}}

InitSim ==
    /\ latexInput = << >>
    /\ importModal = "none"
    /\ importError = ""
    /\ \E d \in SimDiagrams : nodes = d.nodes /\ links = d.links
    /\ selectedObject = 0
    /\ circles = << >> /\ texts = << >> /\ lines = << >> /\ arcs = << >> /\ fills = << >>
    /\ pc = "idle"
    /\ i = 1
    /\ nodePositions = << >>
    /\ result = EmptyGraph
    /\ outcome = "none"
    /\ exported = [saved |-> FALSE, graph |-> EmptyGraph]
    /\ kept = NoKept
    /\ undoStack = << >> /\ redoStack = << >>
    /\ listed = NoList
    /\ currentLink = NoLink /\ movingObject = FALSE /\ originalClick = Pt(0, 0)
    /\ simulationActive = FALSE /\ currentSimulation = NoSimulation /\ simError = << >>

NextSim ==
    \/ ToggleSimulationMode
    \/ HandleStartSimulation
    \/ HandleStepSimulation
    \/ StepSimulationCall
    \/ HandleResetSimulation

SpecSim == InitSim /\ [][NextSim]_vars

\* the simulation panel and the keyboard of the editor: a machine is drawn,
\* nothing or one of its states is selected
InitSimEdit ==
    /\ latexInput = << >>
    /\ importModal = "none"
    /\ importError = ""
    /\ \E d \in SimDiagrams : nodes = d.nodes /\ links = d.links
    /\ selectedObject \in {0} \cup DOMAIN nodes
    /\ circles = << >> /\ texts = << >> /\ lines = << >> /\ arcs = << >> /\ fills = << >>
    /\ pc = "idle"
    /\ i = 1
    /\ nodePositions = << >>
    /\ result = EmptyGraph
    /\ outcome = "none"
    /\ exported = [saved |-> FALSE, graph |-> EmptyGraph]
    /\ kept = NoKept
    /\ undoStack = << >> /\ redoStack = << >>
    /\ listed = NoList
    /\ currentLink = NoLink /\ movingObject = FALSE /\ originalClick = Pt(0, 0)
    /\ simulationActive = FALSE /\ currentSimulation = NoSimulation /\ simError = << >>

NextSimEdit ==
    \/ ToggleSimulationMode
    \/ HandleStartSimulation
    \/ HandleStepSimulation
    \/ HandleResetSimulation
    \/ Undo
    \/ Redo
    \/ DeleteSelected
    \/ ClearCanvas

SpecSimEdit == InitSimEdit /\ [][NextSimEdit]_vars

----------------------------------------------------------------------------
(* C1 *)

EdgeKey(link) == <<link.type, link.node, link.nodeA, link.nodeB, link.text>>
EdgeCount(graph, key) == Cardinality({k \in DOMAIN graph.links : EdgeKey(graph.links[k]) = key})

SameNodes(g, r) ==
    /\ Len(r.nodes) = Len(g.nodes)
    /\ \A k \in DOMAIN g.nodes :
          /\ r.nodes[k].isAcceptState = g.nodes[k].isAcceptState
          /\ r.nodes[k].text = g.nodes[k].text

SameEdges(g, r) ==
    /\ Len(r.links) = Len(g.links)
    /\ \A k \in DOMAIN g.links :
          EdgeCount(r, EdgeKey(g.links[k])) = EdgeCount(g, EdgeKey(g.links[k]))

\* the import of the text of the last export has ended
ReimportDone ==
    /\ pc = "idle" /\ outcome \in {"imported", "nonodes"}
    /\ exported.saved /\ latexInput = ToLaTeX(exported.graph)

\* C1: importing the text exported for a diagram gives a graph with the same
\* number of nodes, the same accept flag and text on each node, and the same
\* edges: kinds, endpoint nodes and label texts.
RoundTrip ==
    ReimportDone => SameNodes(exported.graph, result) /\ SameEdges(exported.graph, result)

----------------------------------------------------------------------------
(* C2 .. C5: the import of a pasted text *)

\* a begin line with an end line after it
HasBlock(text) ==
    \E b, e \in DOMAIN text : b < e /\ text[b].cmd = "begin" /\ text[e].cmd = "end"

\* C2: a text without a complete \begin{tikzpicture} ... \end{tikzpicture}
\* block makes parse throw; the import ends with that one error before
\* reconstructFSM takes a step, and no graph, not even a partial one, exists.
StructuralFailure ==
    /\ [](~HasBlock(latexInput) =>
            /\ Parse(latexInput).thrown
            /\ pc = "idle" /\ outcome \in {"none", "empty", "thrown"}
            /\ result = EmptyGraph /\ nodePositions = << >>)
    /\ [][pc = "idle" /\ importModal = "block" /\ latexInput # << >> /\ ~HasBlock(latexInput)
            => outcome' = "thrown" /\ importError' = MsgNoTikz /\ pc' = "idle"]_vars

\* a text holding a begin line and an end line, in the wrong order, was refused
ThrownOnBrokenBlock ==
    /\ outcome = "thrown"
    /\ \E k \in DOMAIN latexInput : latexInput[k].cmd = "begin"
    /\ \E k \in DOMAIN latexInput : latexInput[k].cmd = "end"

\* C3: a text with a block never makes the import throw: it starts
\* reconstructFSM, which always comes to return a graph, and that graph is
\* the empty graph when no circle of the outer-ring radius class was parsed.
NeverRaises ==
    /\ [](HasBlock(latexInput) => outcome # "thrown")
    /\ [][pc = "idle" /\ importModal = "block" /\ HasBlock(latexInput)
            => outcome' = "running" /\ pc' = "step1"]_vars
    /\ (outcome = "running" ~> pc = "return")
    /\ [](pc = "return" /\ (\A k \in DOMAIN circles : Abs(circles[k].radius - 3 * Unit) >= Half)
            => result = EmptyGraph)

\* the empty graph is returned for a block whose label and line found no node
EmptyGraphReturned ==
    pc = "return" /\ result = EmptyGraph /\ texts # << >> /\ lines # << >>

\* C4: every link of the result refers to nodes of the same result, at the
\* return and at every step before it.
NoDanglingReference ==
    \A k \in DOMAIN result.links :
        IF result.links[k].type = "Link"
        THEN result.links[k].nodeA \in DOMAIN result.nodes
             /\ result.links[k].nodeB \in DOMAIN result.nodes
        ELSE result.links[k].node \in DOMAIN result.nodes

\* a graph with a link from its second node to its first is returned
LinkReturned ==
    /\ pc = "return"
    /\ \E k \in DOMAIN result.links :
          result.links[k].type = "Link" /\ result.links[k].nodeA = 2 /\ result.links[k].nodeB = 1

\* C5: an import that ends with an error (empty input, no block, no nodes)
\* leaves the editor's nodes and links as they were; one that succeeds makes
\* them the result's nodes and links, nothing else.
ImportContract ==
    [][/\ (outcome' # outcome /\ outcome' \in {"empty", "thrown", "nonodes"})
            => (nodes' = nodes /\ links' = links)
       /\ (outcome' # outcome /\ outcome' = "imported")
            => (nodes' = result.nodes /\ links' = result.links /\ Len(nodes') > 0)]_vars

\* the drawn diagram has been replaced by an imported one with two nodes
DiagramReplaced ==
    /\ outcome = "imported" /\ nodes = result.nodes /\ links = result.links
    /\ Len(nodes) = 2 /\ links # LoopDiagram.links

----------------------------------------------------------------------------
(* C6 .. C10: nodes from circles *)

\* reconstructFSM is about to look at circles[i]
AtCircle == pc = "step1" /\ i <= Len(circles)

\* the radius classes and the mapping, as the contract words them
OuterClass(c) == Abs(c.radius - 3 * Unit) < Half
InnerClass(c) == Abs(c.radius - (24 * Unit) \div 10) < Half
Mapped(c) == [x |-> 10 * c.x, y |-> (-10) * c.y]

\* n is less than 1 unit from p on each axis; n is less than 1 unit from p
InBox(n, p) == Abs(n.x - p.x) < Unit /\ Abs(n.y - p.y) < Unit
InUnit(n, p) == InBox(n, p) /\ Sq(n.x - p.x) + Sq(n.y - p.y) < Sq(Unit)

AcceptMarking ==
    /\ [][AtCircle /\ circles[i].radius = (24 * Unit) \div 10
             /\ (\E k \in DOMAIN result.nodes :
                    Mapped(circles[i]) = [x |-> result.nodes[k].x, y |-> result.nodes[k].y])
          => /\ Len(result'.nodes) = Len(result.nodes)
             /\ \A k \in DOMAIN result.nodes :
                    Mapped(circles[i]) = [x |-> result.nodes[k].x, y |-> result.nodes[k].y]
                        => result'.nodes[k].isAcceptState]_vars
    /\ [](pc = "return" /\ Len(circles) = 2
            /\ circles[1].radius = 3 * Unit /\ circles[2].radius = (24 * Unit) \div 10
            /\ circles[1].x = circles[2].x /\ circles[1].y = circles[2].y
          => Len(result.nodes) = 1 /\ result.nodes[1].isAcceptState)

\* an outer ring and an inner ring at one place gave one accepting node
AcceptingNodeReturned ==
    /\ pc = "return" /\ Len(circles) = 2
    /\ circles[1].radius = 3 * Unit /\ circles[2].radius = (24 * Unit) \div 10
    /\ circles[1].x = circles[2].x /\ circles[1].y = circles[2].y
    /\ Len(result.nodes) = 1 /\ result.nodes[1].isAcceptState

\* circles[i] is an inner ring: of the inner class and not taken for an outer ring
AtInnerRing == AtCircle /\ InnerClass(circles[i]) /\ ~OuterClass(circles[i])

\* C8 as stated: a node is accepting exactly when an inner ring less than 1
\* canvas unit from its centre was matched to it (the first such node) after
\* its creation; an inner ring with no node that near changes nothing.
AcceptingIffRingWithinUnit ==
    [][LET first == {k \in DOMAIN result.nodes :
                        /\ InUnit(result.nodes[k], Mapped(circles[i]))
                        /\ \A m \in 1..(k - 1) : ~InUnit(result.nodes[m], Mapped(circles[i]))}
       IN  /\ \A k \in DOMAIN result'.nodes :
                 result'.nodes[k].isAcceptState <=>
                    /\ k \in DOMAIN result.nodes
                    /\ result.nodes[k].isAcceptState \/ (AtInnerRing /\ k \in first)
           /\ (AtInnerRing /\ first = {}) => result' = result]_vars

\* C8, with the distance taken on each axis: a node is accepting exactly when
\* an inner ring less than 1 canvas unit from its centre in x and in y was
\* matched to it (the first such node) after its creation; an inner ring with
\* no node that near changes nothing.
AcceptingIffRingInBox ==
    [][LET first == {k \in DOMAIN result.nodes :
                        /\ InBox(result.nodes[k], Mapped(circles[i]))
                        /\ \A m \in 1..(k - 1) : ~InBox(result.nodes[m], Mapped(circles[i]))}
       IN  /\ \A k \in DOMAIN result'.nodes :
                 result'.nodes[k].isAcceptState <=>
                    /\ k \in DOMAIN result.nodes
                    /\ result.nodes[k].isAcceptState \/ (AtInnerRing /\ k \in first)
           /\ (AtInnerRing /\ first = {}) => result' = result]_vars

\* an inner ring 0.9 right of and 0.9 below a node has made it accepting
RingAtCornerMatched ==
    /\ pc = "step1" /\ i = 3
    /\ OuterClass(circles[1]) /\ InnerClass(circles[2]) /\ ~OuterClass(circles[2])
    /\ circles[2].x # circles[1].x /\ circles[2].y # circles[1].y
    /\ Len(result.nodes) = 1 /\ result.nodes[1].isAcceptState

\* C9 as stated: no circle whose radius is within 0.5 of 2.4 adds a node.
InnerClassAddsNoNode ==
    [][AtCircle /\ InnerClass(circles[i]) => Len(result'.nodes) = Len(result.nodes)]_vars

\* C9, for the radii the outer-ring test does not take first: no circle whose
\* radius is within 0.5 of 2.4 and not within 0.5 of 3 adds a node.
InnerRingAddsNoNode ==
    [][AtInnerRing => Len(result'.nodes) = Len(result.nodes)]_vars

\* an inner ring read first has left the result without nodes
InnerRingDropped ==
    /\ pc = "step1" /\ i = 2
    /\ InnerClass(circles[1]) /\ ~OuterClass(circles[1])
    /\ result = EmptyGraph

\* C10: a block of one circle of radius 3 at (x, y) and one label without a
\* position hint at (x, y) reading T gives one node at (10x, -10y) named T,
\* not accepting, and no links; (30, -30) gives (300, 300).
OneLabelledNode ==
    (/\ pc = "return"
     /\ Len(circles) = 1 /\ Len(texts) = 1 /\ lines = << >> /\ arcs = << >>
     /\ circles[1].radius = 3 * Unit /\ texts[1].position = ""
     /\ texts[1].x = circles[1].x /\ texts[1].y = circles[1].y)
    => /\ result = [nodes |-> <<[x |-> 10 * circles[1].x, y |-> (-10) * circles[1].y,
                                  text |-> texts[1].text, isAcceptState |-> FALSE]>>,
                     links |-> << >>]
       /\ (circles[1].x = 30 * Unit /\ circles[1].y = (-30) * Unit)
            => (result.nodes[1].x = 300 * Unit /\ result.nodes[1].y = 300 * Unit)

\* the node of (400, 300) named "q 0" is returned alone
LabelledNodeReturned ==
    /\ pc = "return" /\ Len(circles) = 1 /\ Len(texts) = 1
    /\ texts[1].x = circles[1].x /\ texts[1].y = circles[1].y
    /\ Len(result.nodes) = 1 /\ result.nodes[1].text = <<"q", " ", "0">>
    /\ result.links = << >>

----------------------------------------------------------------------------
(* C11 .. C16: links from lines and arcs *)

\* reconstructFSM is about to look at lines[i], a polyline of two points
AtLine == pc = "step4" /\ i <= Len(lines) /\ Len(lines[i].points) = 2

\* the canvas point of a TikZ point
Canvas(p) == [x |-> 10 * p.x, y |-> (-10) * p.y]

\* node k of the result is less than t canvas units from the canvas point p
Within(p, k, t) ==
    /\ Abs(result.nodes[k].x - p.x) < t * Unit /\ Abs(result.nodes[k].y - p.y) < t * Unit
    /\ Sq(result.nodes[k].x - p.x) + Sq(result.nodes[k].y - p.y) < Sq(t * Unit)

\* the node a point resolves to: the nearest of the nodes less than t units
\* from p, the first created of equally near ones; 0 when there is none
Resolved(p, t) ==
    LET d(k) == Sq(result.nodes[k].x - p.x) + Sq(result.nodes[k].y - p.y)
        near == {k \in DOMAIN result.nodes : Within(p, k, t)}
    IN  IF near = {} THEN 0
        ELSE CHOOSE k \in near : \A m \in near : d(k) < d(m) \/ (d(k) = d(m) /\ k <= m)

\* this step adds exactly one edge, and it is e
Adds(e) == result'.links = Append(result.links, e) /\ result'.nodes = result.nodes

StraightFromTo(a, b) ==
    [type |-> "Link", nodeA |-> a, nodeB |-> b, node |-> 0, text |-> << >>,
     parallelPart |-> Unit \div 2, perpendicularPart |-> 0, lineAngleAdjust |-> 0,
     anchorAngle |-> 0, deltaX |-> 0, deltaY |-> 0]

\* C11 as stated: a two-point polyline whose first point is less than 40
\* units from a node A and whose second point is less than 40 units from
\* another node B adds exactly one Transition from A to B, with
\* parallelPart 0.5 and perpendicularPart 0.
StraightBetweenNodesInReach ==
    [][AtLine =>
        \A a, b \in DOMAIN result.nodes :
            (a # b /\ Within(Canvas(lines[i].points[1]), a, 40)
                   /\ Within(Canvas(lines[i].points[2]), b, 40))
            => Adds(StraightFromTo(a, b))]_vars

\* C11, with each point resolved to its nearest node: a two-point polyline
\* whose first point resolves to a node A (the nearest node less than 40
\* units away) and whose second point resolves to another node B adds
\* exactly one Transition from A to B, with parallelPart 0.5 and
\* perpendicularPart 0.
StraightTransition ==
    [][AtLine =>
        LET a == Resolved(Canvas(lines[i].points[1]), 40)
            b == Resolved(Canvas(lines[i].points[2]), 40)
        IN  (a # 0 /\ b # 0 /\ a # b) => Adds(StraightFromTo(a, b))]_vars

\* a line whose first point is in reach of both states, nearer to the second,
\* and whose second point is in the first state, gave a Transition 2 -> 1
StraightLinkToNearerState ==
    /\ pc = "step4" /\ i = 2 /\ Len(lines[1].points) = 2
    /\ Within(Canvas(lines[1].points[1]), 1, 40) /\ Within(Canvas(lines[1].points[1]), 2, 40)
    /\ result.links = <<StraightFromTo(2, 1)>>

\* some node is less than t canvas units from the canvas point p
InReach(p, t) == \E k \in DOMAIN result.nodes : Within(p, k, t)

StartArrowInto(n, free) ==
    [type |-> "StartLink", node |-> n, nodeA |-> 0, nodeB |-> 0, text |-> << >>,
     deltaX |-> free.x - result.nodes[n].x, deltaY |-> free.y - result.nodes[n].y,
     anchorAngle |-> 0, parallelPart |-> 0, perpendicularPart |-> 0, lineAngleAdjust |-> 0]

\* C12: a two-point polyline of which exactly one point is less than 40 units
\* from a node adds exactly one StartArrow, into the node that point
\* resolves to, with (deltaX, deltaY) the other point's position minus the
\* node's position, whichever of the two points is written first.
StartArrow ==
    [][AtLine =>
        LET p == Canvas(lines[i].points[1])
            q == Canvas(lines[i].points[2])
        IN  /\ (InReach(q, 40) /\ ~InReach(p, 40)) => Adds(StartArrowInto(Resolved(q, 40), p))
            /\ (InReach(p, 40) /\ ~InReach(q, 40)) => Adds(StartArrowInto(Resolved(p, 40), q))]_vars

\* a line written from the edge of the first state outwards gave a start
\* arrow into that state, coming from 60 units to its left
StartArrowDrawnBackwards ==
    /\ pc = "step4" /\ i = 2 /\ Len(lines[1].points) = 2
    /\ InReach(Canvas(lines[1].points[1]), 40) /\ ~InReach(Canvas(lines[1].points[2]), 40)
    /\ Len(result.links) = 1
    /\ result.links[1].type = "StartLink" /\ result.links[1].node = 1
    /\ result.links[1].deltaX = (-60) * Unit /\ result.links[1].deltaY = 0

\* the self-loop radius class, and the canvas point of an arc's centre
LoopClass(arc) == Abs(arc.radius - (9 * Unit) \div 4) < Unit \div 2
Centre(arc) == Canvas([x |-> arc.centerX, y |-> arc.centerY])

\* the nodes from which the centre of the arc is 45 units away, less than 20
\* units more or less
LoopNodes(arc) ==
    {k \in DOMAIN result.nodes :
        /\ Abs(result.nodes[k].x - Centre(arc).x) < 65 * Unit
        /\ Abs(result.nodes[k].y - Centre(arc).y) < 65 * Unit
        /\ Sq(result.nodes[k].x - Centre(arc).x) + Sq(result.nodes[k].y - Centre(arc).y)
              > Sq(25 * Unit)
        /\ Sq(result.nodes[k].x - Centre(arc).x) + Sq(result.nodes[k].y - Centre(arc).y)
              < Sq(65 * Unit)}

\* C13: an arc of the self-loop radius class whose centre is at the self-loop
\* offset from exactly one node adds exactly one SelfLoop, on that node; a
\* block whose only arc is such an arc, and which has no line, returns that
\* SelfLoop and no other edge.
SelfLoopOnSingleNode ==
    /\ [][(pc = "step3" /\ i <= Len(arcs) /\ LoopClass(arcs[i])
                /\ Cardinality(LoopNodes(arcs[i])) = 1)
          => /\ Len(result'.links) = Len(result.links) + 1
             /\ SubSeq(result'.links, 1, Len(result.links)) = result.links
             /\ result'.links[Len(result'.links)].type = "SelfLink"
             /\ result'.links[Len(result'.links)].node \in LoopNodes(arcs[i])
             /\ result'.nodes = result.nodes]_vars
    /\ [](pc = "return" /\ Len(arcs) = 1 /\ lines = << >> /\ LoopClass(arcs[1])
                /\ Cardinality(LoopNodes(arcs[1])) = 1
          => /\ Len(result.links) = 1
             /\ result.links[1].type = "SelfLink"
             /\ result.links[1].node \in LoopNodes(arcs[1]))

\* the loop drawn above the first of two states is returned as the only edge
SelfLoopReturned ==
    /\ pc = "return" /\ Len(arcs) = 1 /\ lines = << >> /\ LoopClass(arcs[1])
    /\ Len(result.nodes) = 2 /\ LoopNodes(arcs[1]) = {1}
    /\ Len(result.links) = 1 /\ result.links[1].type = "SelfLink" /\ result.links[1].node = 1
    /\ result.links[1].anchorAngle = -90

\* reconstructFSM is about to look at arcs[i], which no self-loop has taken
AtOpenArc == pc = "step5" /\ i <= Len(arcs) /\ ~arcs[i].assigned

\* the canvas points at which an arc starts and ends
ArcStart(arc) == Canvas([x |-> arc.startX, y |-> arc.startY])
ArcEnd(arc) ==
    Canvas([x |-> arc.centerX + Round(arc.radius * Cos(arc.endAngle), Trig),
            y |-> arc.centerY + Round(arc.radius * Sin(arc.endAngle), Trig)])

\* squared distance of two canvas points; p is less than 20 units from q
Apart2(p, q) == Sq(p.x - q.x) + Sq(p.y - q.y)
Beside(p, q) ==
    Abs(p.x - q.x) < 20 * Unit /\ Abs(p.y - q.y) < 20 * Unit /\ Apart2(p, q) < Sq(20 * Unit)

\* the arrowhead found for an arc: of the fills no arc has taken whose first
\* point is less than 20 units from the arc's start or end, the one whose
\* first point is nearest to either, the first of equally near ones; 0 when
\* there is none
Arrowhead(arc) ==
    LET tip(j) == Canvas(fills[j].points[1])
        d(j) == Min(Apart2(tip(j), ArcStart(arc)), Apart2(tip(j), ArcEnd(arc)))
        found == {j \in DOMAIN fills :
                    /\ ~fills[j].assigned
                    /\ Beside(tip(j), ArcStart(arc)) \/ Beside(tip(j), ArcEnd(arc))}
    IN  IF found = {} THEN 0
        ELSE CHOOSE j \in found : \A m \in found : d(j) < d(m) \/ (d(j) = d(m) /\ j <= m)

ArrowheadAtStart(arc) ==
    /\ Arrowhead(arc) # 0
    /\ Apart2(Canvas(fills[Arrowhead(arc)].points[1]), ArcStart(arc))
          < Apart2(Canvas(fills[Arrowhead(arc)].points[1]), ArcEnd(arc))

\* C14: for an arc no self-loop has taken whose start and end resolve to two
\* distinct nodes S and E (nearest node less than 45 units away), the
\* Transition added runs E -> S when the arrowhead found for the arc is nearer
\* to the arc's start than to its end, and S -> E when it is nearer to the
\* end or no arrowhead is found.
CurvedEdgeDirection ==
    [][AtOpenArc =>
        LET s == Resolved(ArcStart(arcs[i]), 45)
            e == Resolved(ArcEnd(arcs[i]), 45)
            new == result'.links[Len(result'.links)]
        IN  (s # 0 /\ e # 0 /\ s # e) =>
                /\ Len(result'.links) = Len(result.links) + 1
                /\ new.type = "Link"
                /\ IF ArrowheadAtStart(arcs[i])
                   THEN new.nodeA = e /\ new.nodeB = s
                   ELSE new.nodeA = s /\ new.nodeB = e]_vars

\* the primitives of a collection that an edge was made from
Taken(prims) == {k \in DOMAIN prims : prims[k].assigned}

\* C15: the curved-edge pass adds nothing for an arc a self-loop was made
\* from; the edges of the result are as many as the arcs and lines taken, one
\* edge each; once the self-loop pass is over, an arc of the self-loop
\* radius class with no node at the self-loop offset is not taken, and the
\* curved-edge pass makes a Transition of it when its ends resolve to two
\* distinct nodes.
OneEdgePerArc ==
    /\ [][(pc = "step5" /\ i <= Len(arcs) /\ arcs[i].assigned) => result' = result]_vars
    /\ [][(pc \in {"step3", "step5"} /\ i <= Len(arcs))
            => Len(result'.links) <= Len(result.links) + 1]_vars
    /\ [](Len(result.links) = Cardinality(Taken(arcs)) + Cardinality(Taken(lines)))
    /\ [](pc = "step4" =>
            \A k \in DOMAIN arcs :
                (LoopClass(arcs[k]) /\ LoopNodes(arcs[k]) = {}) => ~arcs[k].assigned)
    /\ [][(pc = "step5" /\ i <= Len(arcs) /\ LoopClass(arcs[i]) /\ LoopNodes(arcs[i]) = {}
                /\ Resolved(ArcStart(arcs[i]), 45) # 0 /\ Resolved(ArcEnd(arcs[i]), 45) # 0
                /\ Resolved(ArcStart(arcs[i]), 45) # Resolved(ArcEnd(arcs[i]), 45))
            => /\ Len(result'.links) = Len(result.links) + 1
               /\ result'.links[Len(result'.links)].type = "Link"]_vars

\* an arc of radius 2.25 between two states, its centre 66 units from each,
\* was left by the self-loop pass and is returned as a Transition
SmallArcBecameLink ==
    /\ pc = "return" /\ Len(arcs) = 1 /\ LoopClass(arcs[1]) /\ LoopNodes(arcs[1]) = {}
    /\ Len(result.links) = 1 /\ result.links[1].type = "Link"
    /\ result.links[1].nodeA = 1 /\ result.links[1].nodeB = 2

\* no Transition of the result runs from a node to itself
NoTransitionToSelf ==
    \A k \in DOMAIN result.links :
        result.links[k].type = "Link" => result.links[k].nodeA # result.links[k].nodeB

\* both points resolve to no node, or both to the same node
NoneOrSame(p, q, t) ==
    \/ Resolved(p, t) = 0 /\ Resolved(q, t) = 0
    \/ Resolved(p, t) # 0 /\ Resolved(p, t) = Resolved(q, t)

\* both points resolve to the same node, or only one of them resolves to a node
SameOrOne(p, q, t) ==
    \/ Resolved(p, t) # 0 /\ Resolved(p, t) = Resolved(q, t)
    \/ (Resolved(p, t) = 0) # (Resolved(q, t) = 0)

\* C16 as stated: no Transition of the result runs from a node to itself; a
\* two-point polyline whose points resolve to no node or to the same node adds
\* no edge; an arc whose ends resolve to the same node, or of which only one
\* end resolves to a node, adds no edge in any pass.
NoEdgeFromAnyArcAtOneNode ==
    /\ []NoTransitionToSelf
    /\ [][(AtLine /\ NoneOrSame(Canvas(lines[i].points[1]), Canvas(lines[i].points[2]), 40))
            => result' = result]_vars
    /\ [][(pc \in {"step3", "step5"} /\ i <= Len(arcs)
                /\ SameOrOne(ArcStart(arcs[i]), ArcEnd(arcs[i]), 45))
            => result' = result]_vars

\* C16, for the arcs the self-loop pass has left: no Transition of the
\* result runs from a node to itself; a two-point polyline whose points
\* resolve to no node or to the same node adds no edge; an arc no self-loop
\* was made from whose ends resolve to the same node, or of which only one end
\* resolves to a node, adds no edge.
NoEdgeFromOpenArcAtOneNode ==
    /\ []NoTransitionToSelf
    /\ [][(AtLine /\ NoneOrSame(Canvas(lines[i].points[1]), Canvas(lines[i].points[2]), 40))
            => result' = result]_vars
    /\ [][(AtOpenArc /\ SameOrOne(ArcStart(arcs[i]), ArcEnd(arcs[i]), 45))
            => result' = result]_vars
    /\ [](pc = "return" =>
            \A k \in DOMAIN arcs :
                (~LoopClass(arcs[k]) /\ SameOrOne(ArcStart(arcs[k]), ArcEnd(arcs[k]), 45))
                    => ~arcs[k].assigned)

\* an arc of radius 1 from (310,300) to (290,300), both inside the first
\* state, has passed the curved-edge pass and left no edge
ArcInsideStateDropped ==
    /\ pc = "step5" /\ i = 2 /\ Len(arcs) = 1 /\ ~arcs[1].assigned
    /\ Resolved(ArcStart(arcs[1]), 45) = 1 /\ Resolved(ArcEnd(arcs[1]), 45) = 1
    /\ result.links = << >>

----------------------------------------------------------------------------
(* C17 .. C20: labels *)

\* a label pass is about to look at texts[i]
AtLabel(pass) == pc = pass /\ i <= Len(texts)

\* the text primitive qualifies as a node label: it has no position hint and
\* resolves to a node (the nearest node less than 45 units away)
NodeLabel(text) == text.position = "" /\ Resolved(Canvas(text), 45) # 0

\* C17: pass 1 gives a text to at most one node and to no edge; pass 2 gives
\* a text to at most one edge and to no node, and gives nothing for a text
\* that pass 1 used as a node label.
TextConsumedOnce ==
    /\ [][AtLabel("step2") =>
            /\ result'.links = result.links
            /\ Len(result'.nodes) = Len(result.nodes)
            /\ Cardinality({k \in DOMAIN result.nodes : result'.nodes[k] # result.nodes[k]}) <= 1
            /\ result' # result => NodeLabel(texts[i])]_vars
    /\ [][AtLabel("step6") =>
            /\ result'.nodes = result.nodes
            /\ Len(result'.links) = Len(result.links)
            /\ Cardinality({k \in DOMAIN result.links : result'.links[k] # result.links[k]}) <= 1
            /\ NodeLabel(texts[i]) => result' = result]_vars

\* the label "A" of the first state lies 60 units from the tail of the start
\* arrow into it: the state is named A and the arrow is returned unlabelled
NodeLabelNotOnEdge ==
    /\ pc = "return" /\ Len(texts) = 1 /\ NodeLabel(texts[1])
    /\ result.nodes[1].text = texts[1].text
    /\ Len(result.links) = 1 /\ result.links[1].type = "StartLink"
    /\ Abs(result.nodes[1].x + result.links[1].deltaX - Canvas(texts[1]).x) < 80 * Unit
    /\ result.nodes[1].y + result.links[1].deltaY = Canvas(texts[1]).y
    /\ result.links[1].text = << >>

\* the texts that qualify as the label of node k, in input order
LabelsOf(k) ==
    {j \in DOMAIN texts : texts[j].position = "" /\ Resolved(Canvas(texts[j]), 45) = k}

\* C18: once pass 1 is over, a node for which several texts without a hint
\* qualify is named by the first of them in input order.
FirstNodeLabelWins ==
    pc \in {"step3", "step4", "step5", "step6", "return"} =>
        \A k \in DOMAIN result.nodes :
            LabelsOf(k) # {} =>
                result.nodes[k].text =
                    texts[CHOOSE j \in LabelsOf(k) : \A m \in LabelsOf(k) : j <= m].text

\* C19: pass 2 never changes the label of an edge that has one: an edge gets
\* the text of at most one text primitive.
EdgeLabelledOnce ==
    [][AtLabel("step6") =>
        \A k \in DOMAIN result.links :
            result.links[k].text # << >> => result'.links[k].text = result.links[k].text]_vars

PositionHints == {"above", "below", "left", "right"}

\* C20: pass 1 changes nothing for a text with a position hint, however
\* near a node it lies; the text of a node is always empty or the text of a
\* text primitive without a hint that lies less than 45 units from the node.
HintedNeverNodeLabel ==
    /\ [][(AtLabel("step2") /\ texts[i].position \in PositionHints) => result' = result]_vars
    /\ [](\A k \in DOMAIN result.nodes :
            \/ result.nodes[k].text = << >>
            \/ \E j \in DOMAIN texts :
                  /\ texts[j].position = ""
                  /\ Within(Canvas(texts[j]), k, 45)
                  /\ result.nodes[k].text = texts[j].text)

\* a text hinted "above" at the centre of the first state was read and the
\* state is returned unnamed
HintedLabelAtNodeIgnored ==
    /\ pc = "return"
    /\ \E j \in DOMAIN texts :
          /\ texts[j].position = "above"
          /\ Canvas(texts[j]) = [x |-> result.nodes[1].x, y |-> result.nodes[1].y]
    /\ result.nodes[1].text = << >>

----------------------------------------------------------------------------
(* C21 .. C30 *)

\* the label anchor of edge k of the result: for a self-loop the point of its
\* satellite circle at the anchor angle, for a start arrow the node plus the
\* delta, for a straight transition the midpoint of its two nodes, for a
\* curved one the middle of its arc, which lies perpendicularPart beside that
\* midpoint
LabelAnchor(k) ==
    LET e == result.links[k]
    IN  IF e.type = "SelfLink"
        THEN LET n == result.nodes[e.node]
                 cx == n.x + Round(45 * Unit * Cos(e.anchorAngle), Trig)
                 cy == n.y + Round(45 * Unit * Sin(e.anchorAngle), Trig)
             IN  [x |-> cx + Round(((45 * Unit) \div 2) * Cos(e.anchorAngle), Trig),
                  y |-> cy + Round(((45 * Unit) \div 2) * Sin(e.anchorAngle), Trig)]
        ELSE IF e.type = "StartLink"
        THEN [x |-> result.nodes[e.node].x + e.deltaX, y |-> result.nodes[e.node].y + e.deltaY]
        ELSE LET a == result.nodes[e.nodeA]
                 b == result.nodes[e.nodeB]
                 length == ISqrt(Sq(b.x - a.x) + Sq(b.y - a.y))
             IN  IF e.perpendicularPart = 0 \/ length = 0
                 THEN [x |-> (a.x + b.x) \div 2, y |-> (a.y + b.y) \div 2]
                 ELSE [x |-> (a.x + b.x) \div 2 - Round((b.y - a.y) * e.perpendicularPart, length),
                       y |-> (a.y + b.y) \div 2 + Round((b.x - a.x) * e.perpendicularPart, length)]

\* the anchor of edge k is less than 80 units from the canvas point p
AnchorInReach(p, k) ==
    /\ Abs(LabelAnchor(k).x - p.x) < 80 * Unit /\ Abs(LabelAnchor(k).y - p.y) < 80 * Unit
    /\ Sq(LabelAnchor(k).x - p.x) + Sq(LabelAnchor(k).y - p.y) < Sq(80 * Unit)

\* C21: pass 2 gives an unconsumed text to an edge whose label anchor is
\* nearest to it among the anchors less than 80 units away, and leaves the
\* text unconsumed and every edge as it was when there is no such anchor.
LabelToNearestAnchor ==
    [][(AtLabel("step6") /\ ~texts[i].assigned) =>
        LET p == Canvas(texts[i])
            near == {k \in DOMAIN result.links : AnchorInReach(p, k)}
            d(k) == Sq(LabelAnchor(k).x - p.x) + Sq(LabelAnchor(k).y - p.y)
        IN  IF near = {}
            THEN result' = result /\ ~texts'[i].assigned
            ELSE \E k \in near :
                    /\ \A m \in near : d(k) <= d(m)
                    /\ result' = [result EXCEPT !.links[k].text = texts[i].text]
                    /\ texts'[i].assigned]_vars

\* reconstructFSM is about to start on the collections a second parse has left
AfterSecondParse == kept.call = "parse" /\ pc = "step1" /\ i = 1 /\ result = EmptyGraph

\* C22: after parse(t2) on an importer that has parsed and reconstructed t1,
\* reconstructFSM starts from the five collections, and the empty graph and
\* node list, from which it starts on a new importer given t2 alone; and it
\* returns for a t2 equal to t1 the graph the new importer returned for t1.
NoLeakBetweenParses ==
    /\ (kept.call = "parse" /\ pc \in {"step1", "idle"} /\ i = 1 /\ outcome \in {"running", "thrown"}) =>
          /\ [circles |-> circles, texts |-> texts, lines |-> lines, arcs |-> arcs, fills |-> fills]
                = Parse(latexInput).prims
          /\ result = EmptyGraph /\ nodePositions = << >>
    /\ (kept.call = "parse" /\ pc = "return" /\ kept.text = latexInput) => result = kept.graph

\* a second parse of another text has followed an import that found an edge
\* and a label, and has left fewer primitives than the first
SecondParseOfOtherText ==
    /\ kept.call = "parse" /\ pc = "step1" /\ i = 1
    /\ kept.text # latexInput
    /\ Len(kept.graph.links) > 0
    /\ \E k \in DOMAIN kept.graph.links : kept.graph.links[k].text # << >>
    /\ Len(circles) = 1 /\ Len(texts) = 0 /\ Len(arcs) = 0 /\ Len(lines) = 0

\* C23: a second reconstructFSM on the same importer, with no parse between
\* the calls, returns a graph equal to the one the first call returned.
SecondReconstructEqual ==
    (kept.call = "reconstructFSM" /\ pc = "return") => result = kept.graph

\* the start arrows of the result
StartArrows == {k \in DOMAIN result.links : result.links[k].type = "StartLink"}

\* the two-point polylines of which exactly one end resolves to a node
OneEndedLines ==
    {j \in DOMAIN lines :
        /\ Len(lines[j].points) = 2
        /\ InReach(Canvas(lines[j].points[1]), 40) # InReach(Canvas(lines[j].points[2]), 40)}

\* C24 as stated: no graph under reconstruction holds more than one StartArrow.
AtMostOneStartArrow == Cardinality(StartArrows) <= 1

\* C24, amended: once the straight-edge stage is over the graph holds one
\* StartArrow for each two-point polyline of which exactly one end resolves
\* to a node, and so never more StartArrows than two-point polylines.
OneStartArrowPerOneEndedLine ==
    /\ Cardinality(StartArrows) <= Cardinality({j \in DOMAIN lines : Len(lines[j].points) = 2})
    /\ pc \in {"step5", "step6", "return"} => Cardinality(StartArrows) = Cardinality(OneEndedLines)

\* two lines into the first state gave a graph with two start arrows into it
TwoStartArrowsReturned ==
    /\ pc = "return"
    /\ Cardinality(OneEndedLines) = 2
    /\ Cardinality(StartArrows) = 2
    /\ \A k \in StartArrows : result.links[k].node = 1

\* the text holds an arrowhead statement
HasArrowhead(text) == \E k \in DOMAIN text : text[k].cmd = "fill"

\* C25: the graph importFromLaTeX returns has an isDirected property, true
\* for a text with arrowhead statements and false for a text without any.
DirectedFlag ==
    pc = "return" =>
        Property(result, "isDirected") = IF HasArrowhead(latexInput) THEN "true" ELSE "false"

\* the middle of the arc as drawn in the text: the point of its circle at the
\* mean of its two angles, on the canvas
ArcMiddle(arc) ==
    Canvas([x |-> arc.centerX + Round(arc.radius * Cos((arc.startAngle + arc.endAngle) \div 2), Trig),
            y |-> arc.centerY + Round(arc.radius * Sin((arc.startAngle + arc.endAngle) \div 2), Trig)])

\* the middle of the arc the editor draws for the edge e of the graph g
RedrawnMiddle(g, e) == ArcTextPoint(GetEndPointsAndCircle(g.nodes[e.nodeA], g.nodes[e.nodeB], e))

\* the points p and q are less than t units apart
Together(p, q, t) ==
    /\ Abs(p.x - q.x) < t * Unit /\ Abs(p.y - q.y) < t * Unit
    /\ Sq(p.x - q.x) + Sq(p.y - q.y) < Sq(t * Unit)

\* how far, along the line from node a to node b, the point p lies from the
\* middle between the two nodes
AlongFromMiddle(p, a, b) ==
    Round((b.x - a.x) * (p.x - (a.x + b.x) \div 2) + (b.y - a.y) * (p.y - (a.y + b.y) \div 2),
          ISqrt(Sq(b.x - a.x) + Sq(b.y - a.y)))

\* the curved-edge stage turns arcs[i] into a curved Transition
CurvedEdgeAdded ==
    /\ AtOpenArc
    /\ Len(result'.links) = Len(result.links) + 1
    /\ result'.links[Len(result'.links)].perpendicularPart # 0

\* C26 as stated: the arc the editor draws from the parallelPart and
\* perpendicularPart of a curved Transition has its middle less than 2 units
\* from the middle of the arc the Transition was recovered from.
CurvatureRoundTrip ==
    [][CurvedEdgeAdded =>
        Together(RedrawnMiddle(result', result'.links[Len(result'.links)]), ArcMiddle(arcs[i]), 2)]_vars

\* C26, amended: it does so when the middle of the original arc lies less
\* than a unit beside the perpendicular bisector of the two nodes.
CurvatureRoundTripOnBisector ==
    [][CurvedEdgeAdded =>
        LET e == result'.links[Len(result'.links)]
        IN  Abs(AlongFromMiddle(ArcMiddle(arcs[i]), result.nodes[e.nodeA], result.nodes[e.nodeB])) < Unit
                => Together(RedrawnMiddle(result', e), ArcMiddle(arcs[i]), 2)]_vars

\* the arc from (400,300) over (350,250) to (300,300) between the states at
\* its ends became a Transition that the editor draws through (350,250)
SymmetricArcRedrawn ==
    /\ pc = "step5" /\ i = 2 /\ Len(arcs) = 1 /\ arcs[1].assigned
    /\ Len(result.links) = 1 /\ result.links[1].perpendicularPart = 50 * Unit
    /\ result.links[1].nodeA = 2 /\ result.links[1].nodeB = 1
    /\ ArcMiddle(arcs[1]) = [x |-> 350 * Unit, y |-> 250 * Unit]
    /\ AlongFromMiddle(ArcMiddle(arcs[1]), result.nodes[1], result.nodes[2]) = 0
    /\ RedrawnMiddle(result, result.links[1]) = [x |-> 350 * Unit, y |-> 250 * Unit]

\* the lines of the text between the begin line and the end line of its block
BlockLines(text) ==
    IF TikzMatch(text)[1] = 0 THEN {}
    ELSE {k \in DOMAIN text : TikzMatch(text)[1] <= k /\ k <= TikzMatch(text)[2]}

\* the lines of the block whose statement is of the kind: the first of
\* circle, node, arc and path of which the line has a well-formed statement
KindOf(line) ==
    IF line.cmd = "fill" THEN "fill"
    ELSE IF line.cmd # "draw" THEN "none"
    ELSE IF FirstMatch(line, CirclePattern) # 0 THEN "circle"
    ELSE IF FirstMatch(line, NodePattern) # 0 THEN "node"
    ELSE IF FirstMatch(line, ArcPattern) # 0 THEN "arc"
    ELSE IF FirstMatch(line, LinePattern) # 0 THEN "path"
    ELSE "none"
OfKind(text, kind) == {k \in BlockLines(text) : KindOf(text[k]) = kind}

\* parse has just returned and reconstructFSM has not looked at anything yet
JustParsed == pc = "step1" /\ i = 1 /\ result = EmptyGraph /\ kept.call = ""

\* C27: a statement adds at most one primitive, of the first kind in the
\* order circle, captioned point, arc, polyline that it matches: after parse
\* there are as many circles, texts and arcs as there are \draw statements of
\* that kind, at most one line for each remaining \draw statement with a
\* polyline and at most one fill for each \fill statement, so never more
\* primitives than statements; and a text with a block never makes parse throw.
OnePrimitivePerStatement ==
    /\ JustParsed =>
          /\ Len(circles) = Cardinality(OfKind(latexInput, "circle"))
          /\ Len(texts) = Cardinality(OfKind(latexInput, "node"))
          /\ Len(arcs) = Cardinality(OfKind(latexInput, "arc"))
          /\ Len(lines) <= Cardinality(OfKind(latexInput, "path"))
          /\ Len(fills) <= Cardinality(OfKind(latexInput, "fill"))
          /\ Len(circles) + Len(texts) + Len(arcs) + Len(lines) + Len(fills)
                <= Cardinality({k \in BlockLines(latexInput) : latexInput[k].cmd \in {"draw", "fill"}})
    /\ (pc = "idle" /\ outcome = "thrown") => BlockLines(latexInput) = {}

\* a line with a captioned point followed by a circle, and a statement that
\* matches no pattern, gave one circle and nothing else
CircleBeforeCaption ==
    /\ JustParsed
    /\ \E k \in BlockLines(latexInput) :
          /\ FirstMatch(latexInput[k], NodePattern) = 1
          /\ FirstMatch(latexInput[k], CirclePattern) = 2
    /\ \E k \in BlockLines(latexInput) : latexInput[k].cmd = "draw" /\ KindOf(latexInput[k]) = "none"
    /\ Len(circles) = 1 /\ Len(texts) = 0 /\ Len(arcs) = 0 /\ Len(lines) = 0 /\ Len(fills) = 0

\* the nodes of the graph without their texts
Unnamed(graph) == [k \in DOMAIN graph.nodes |-> [graph.nodes[k] EXCEPT !.text = << >>]]

\* C30: while the circles are processed and in label pass 1 the graph has no
\* edge; once the circles are processed no step adds, removes or moves a
\* node or changes its isAcceptState; label pass 1 changes node texts at
\* most, and the four edge stages and label pass 2 leave every node as it is.
NodesFrozenAfterResolver ==
    /\ [](pc \in {"step1", "step2"} => result.links = << >>)
    /\ [][(pc \in {"step2", "step3", "step4", "step5", "step6"}) =>
            /\ Unnamed(result') = Unnamed(result)
            /\ nodePositions' = nodePositions]_vars
    /\ [][(pc = "step2") => result'.links = result.links]_vars
    /\ [][(pc \in {"step3", "step4", "step5", "step6"}) => result'.nodes = result.nodes]_vars

\* a graph of two states of which one is named, with an edge that got its
\* label in pass 2, is returned
NamedNodeAndLabelledEdge ==
    /\ pc = "return" /\ Len(result.nodes) = 2
    /\ result.nodes[1].text # << >> /\ result.nodes[2].text = << >>
    /\ \E k \in DOMAIN result.links : result.links[k].text # << >>
    /\ \A j \in DOMAIN texts : texts[j].assigned

\* the diagram on the canvas
Diagram == [nodes |-> nodes, links |-> links]

\* the diagram undo() leaves
AfterUndo ==
    IF Len(undoStack) > 0 THEN RestoreState(undoStack[Len(undoStack)]) ELSE Diagram

\* a step of one of the handlers that change the diagram
EditStep ==
    /\ \/ DoubleClick \/ MouseMove \/ MouseUp \/ KeyPress \/ Backspace
       \/ DeleteSelected \/ DuplicateSelected \/ ClearCanvas \/ ImportReturn
    /\ Diagram' # Diagram

\* C28: after a single action that changes the diagram (a state or link made
\* with the mouse, a state dragged or toggled, text typed or deleted, a
\* deletion, a duplication, a clearing, an import), Ctrl+Z leaves the
\* diagram as it was before that action
UndoRestores == [][EditStep => (AfterUndo' = Diagram)]_vars

\* C29: the labels generateNodeLabels returns are pairwise distinct, and the
\* adjacency list has one entry for each state
UniqueLabels ==
    /\ \A a, b \in DOMAIN listed.labels : a # b => listed.labels[a] # listed.labels[b]
    /\ Cardinality(DOMAIN listed.adjacency) = Len(listed.labels)

----------------------------------------------------------------------------
(* C31 .. C39 *)

\* the ends of the arc Step 5 of the built page is at, and the nodes there
ArcEnds ==
    LET arc == arcs[i]
        startPos == TransformCoord(arc.startX, arc.startY)
        endPos == TransformCoord(arc.centerX + Round(arc.radius * Cos(arc.endAngle), Trig),
                                 arc.centerY + Round(arc.radius * Sin(arc.endAngle), Trig))
    IN  [startPos |-> startPos, endPos |-> endPos,
         startNode |-> FindNearestNode(nodePositions, startPos.x, startPos.y, nodeRadius + 15 * Unit),
         endNode |-> FindNearestNode(nodePositions, endPos.x, endPos.y, nodeRadius + 15 * Unit)]

\* the fills a step marks
NewlyAssigned == {j \in DOMAIN fills : ~fills[j].assigned /\ fills'[j].assigned}

\* the fills taken that lie within 20 of an end of the arc Step 5 is at
TakenNearArc ==
    {j \in DOMAIN fills :
        /\ fills[j].assigned
        /\ LET first == TransformCoord(fills[j].points[1].x, fills[j].points[1].y)
           IN  \/ Closer(first.x, first.y, ArcEnds.endPos.x, ArcEnds.endPos.y, 20 * Unit)
               \/ Closer(first.x, first.y, ArcEnds.startPos.x, ArcEnds.startPos.y, 20 * Unit)}

\* C31: an arrowhead decides the direction of at most one arc.  A step of
\* Step 5 of the built page marks at most one fill, leaves every fill that is
\* marked as it is, and a link it adds that leaves the node at the end of its
\* arc was turned round by a fill the step has just marked: a fill marked
\* earlier turns no later arc round.
FillConsumedOnce ==
    [][Step5Bundle =>
          /\ Cardinality(NewlyAssigned) <= 1
          /\ \A j \in DOMAIN fills : fills[j].assigned => fills'[j] = fills[j]
          /\ Len(fills') = Len(fills)
          /\ (/\ Len(result'.links) > Len(result.links)
              /\ result'.links[Len(result'.links)].nodeA = nodePositions[ArcEnds.endNode].node)
             => \E j \in NewlyAssigned :
                   LET first == TransformCoord(fills[j].points[1].x, fills[j].points[1].y)
                   IN  Closer(first.x, first.y, ArcEnds.startPos.x, ArcEnds.startPos.y, 20 * Unit)
       ]_vars

\* Step 5 of the built page is at an arc between two nodes with a taken fill
\* within 20 of one of its ends
FillConsumedOnceWitness ==
    /\ pc = "step5" /\ i <= Len(arcs) /\ kept.call = "bundle"
    /\ ~arcs[i].assigned
    /\ ArcEnds.startNode # 0 /\ ArcEnds.endNode # 0 /\ ArcEnds.startNode # ArcEnds.endNode
    /\ TakenNearArc # {}

\* C32: any two nodes of the graph reconstructFSM builds, and returns, are
\* at least 1 canvas unit apart in x or in y, whatever circles were read and
\* in whatever order.
NodesApart ==
    \A a, b \in DOMAIN result.nodes :
        a # b => \/ Abs(result.nodes[a].x - result.nodes[b].x) >= Unit
                 \/ Abs(result.nodes[a].y - result.nodes[b].y) >= Unit

\* three outer rings within 1 unit of each other have been read and the graph
\* returned has two nodes, exactly 1 unit apart
TwoOfThreeCirclesKept ==
    /\ pc = "return"
    /\ Len(circles) = 3 /\ \A k \in DOMAIN circles : OuterClass(circles[k])
    /\ Len(result.nodes) = 2
    /\ Abs(result.nodes[1].x - result.nodes[2].x) = Unit
    /\ result.nodes[1].y = result.nodes[2].y

\* C33: the importer of the built page returns, for a text, the graph the
\* importer of src/import_from/latex.js has returned for it: the same nodes
\* and the same links, in kind, direction, curvature and text.
SameGraph == (pc = "return" /\ kept.call = "bundle") => result = kept.graph

\* the two graphs differ in no more than the direction of a link
SameButDirection ==
    (pc = "return" /\ kept.call = "bundle") =>
        /\ result.nodes = kept.graph.nodes
        /\ Len(result.links) = Len(kept.graph.links)
        /\ \A j \in DOMAIN result.links :
              /\ result.links[j].type = kept.graph.links[j].type
              /\ result.links[j].text = kept.graph.links[j].text

\* a call of stepSimulation on the simulation: by the handler, which calls it
\* on an incomplete one, or by another caller
StepCalled ==
    \/ HandleStepSimulation /\ currentSimulation.exists /\ ~currentSimulation.isComplete
    \/ StepSimulationCall

\* C34: a call of stepSimulation on an incomplete simulation adds exactly 1
\* to currentPosition, currentPosition never exceeds the length n of the
\* input string, a simulation that has taken n steps is complete, and a call
\* on a complete simulation changes nothing.
SimulationProgress ==
    /\ [][(StepCalled /\ ~currentSimulation.isComplete)
             => currentSimulation'.currentPosition = currentSimulation.currentPosition + 1]_vars
    /\ [][(StepCalled /\ currentSimulation.isComplete)
             => currentSimulation' = currentSimulation]_vars
    /\ [](currentSimulation.exists =>
             /\ currentSimulation.currentPosition <= Len(currentSimulation.inputString)
             /\ (currentSimulation.currentPosition = Len(currentSimulation.inputString)
                    => currentSimulation.isComplete))

\* a simulation has read its whole input of MaxInput symbols, step by step
WholeInputRead ==
    /\ currentSimulation.exists /\ currentSimulation.isComplete
    /\ Len(currentSimulation.inputString) = MaxInput
    /\ currentSimulation.currentPosition = MaxInput
    /\ currentSimulation.result = "accepted"

\* the states the machine of the transition table can be in after the first
\* k symbols of the input, from the state of the start arrow
RECURSIVE ReachAfter(_, _, _, _)
ReachAfter(table, start, input, k) ==
    IF k = 0 THEN {start}
    ELSE LET before == ReachAfter(table, start, input, k - 1)
         IN  UNION {{table[s][m].targetIndex :
                        m \in {e \in DOMAIN table[s] : table[s][e].symbol = <<input[k]>>}} :
                    s \in before}

\* C35: a complete simulation's result is 'accepted' exactly when some run
\* of the machine of the transition table, from the start state, reads the
\* whole input and ends in an accept state; it is 'stuck' exactly when no
\* run is left before the last symbol is read (no run reads all but the last
\* symbol), and 'rejected' otherwise.
SimulationResult ==
    (currentSimulation.exists /\ currentSimulation.isComplete) =>
        LET input == currentSimulation.inputString
            n == Len(input)
            Reach(k) == ReachAfter(currentSimulation.transitionTable,
                                   FindStartState(nodes, links), input, k)
            accepted == \E s \in Reach(n) : nodes[s].isAcceptState
            stuck == n > 0 /\ Reach(n - 1) = {}
        IN  currentSimulation.result =
                IF accepted THEN "accepted" ELSE IF stuck THEN "stuck" ELSE "rejected"

\* of two runs on the input, one has ended in the accept state and one not
OneRunOfTwoAccepts ==
    /\ currentSimulation.exists /\ currentSimulation.isComplete
    /\ currentSimulation.result = "accepted"
    /\ Len(currentSimulation.inputString) > 0
    /\ \E p, q \in DOMAIN currentSimulation.paths :
          /\ currentSimulation.paths[p].status = "accepted"
          /\ currentSimulation.paths[q].status = "rejected"

\* the machine drawn has no state, no start arrow or several start arrows
NotStartable ==
    Len(nodes) = 0 \/ Cardinality({j \in DOMAIN links : links[j].type = "StartLink"}) # 1

\* C36: initializeSimulation succeeds only for a machine with a state and
\* exactly one start arrow: for any other it returns success = false with
\* error messages and no simulation, and the Start handler shows the errors
\* and leaves currentSimulation null.
StartRefused ==
    /\ [][HandleStartSimulation =>
            /\ NotStartable => (currentSimulation' = NoSimulation /\ simError' # << >>)
            /\ currentSimulation'.exists => ~NotStartable]_vars
    /\ [](\A inputString \in SimInputs :
            LET started == InitializeSimulation(inputString, nodes, links)
            IN  /\ NotStartable => /\ ~started.success
                                   /\ started.errors # << >>
                                   /\ started.simulation = NoSimulation
                /\ started.success => ~NotStartable)

\* the start of a machine with two start arrows has been refused
TwoStartArrowsRefused ==
    /\ simError = <<MsgManyStarts>> /\ ~currentSimulation.exists
    /\ Len(nodes) = 2

\* C39: while a simulation exists, every state index it holds, in
\* currentStates, in the states of its paths and as a target in its
\* transition table, is an index of the editor's nodes, whatever the editor
\* has done to the diagram since the simulation was started.
SimulationIndicesValid ==
    currentSimulation.exists =>
        /\ \A k \in DOMAIN currentSimulation.currentStates :
              currentSimulation.currentStates[k] \in DOMAIN nodes
        /\ \A p \in DOMAIN currentSimulation.paths :
              \A k \in DOMAIN currentSimulation.paths[p].states :
                 currentSimulation.paths[p].states[k] \in DOMAIN nodes
        /\ \A s \in DOMAIN currentSimulation.transitionTable :
              \A e \in DOMAIN currentSimulation.transitionTable[s] :
                 currentSimulation.transitionTable[s][e].targetIndex \in DOMAIN nodes

\* no step of the handler ends in a TypeError, reading a state that nodes
\* does not have
StepReadsNodes ==
    [][(HandleStepSimulation /\ currentSimulation.exists)
          => ~StepOutcome(currentSimulation, nodes).thrown]_vars

\* C37: whatever saveState, undo and redo have done, neither the undo stack
\* nor the redo stack holds more than maxHistorySize entries
HistoryBounded ==
    /\ Len(undoStack) <= maxHistorySize
    /\ Len(redoStack) <= maxHistorySize

\* the undo stack is full and its oldest entry is no longer the drawn
\* diagram: saveState has shifted
HistoryShifted ==
    /\ Len(undoStack) = maxHistorySize
    /\ undoStack[1] # StateOf(HistoryDiagram.nodes, HistoryDiagram.links)

\* the editor as redo() leaves it
AfterRedo ==
    IF Len(redoStack) > 0
    THEN [diagram |-> RestoreState(redoStack[Len(redoStack)]),
          undoStack |-> Append(undoStack, StateOf(nodes, links)),
          redoStack |-> SubSeq(redoStack, 1, Len(redoStack) - 1)]
    ELSE [diagram |-> Diagram, undoStack |-> undoStack, redoStack |-> redoStack]

\* C38: undo followed at once by redo leaves the states, the links and both
\* stacks as they were before the undo
UndoThenRedo ==
    [][Undo => (AfterRedo' = [diagram |-> Diagram, undoStack |-> undoStack,
                              redoStack |-> redoStack])]_vars

\* an undo has just put back the drawn diagram, with the label of its bent
\* link, in place of the diagram without that label
UndoneToDrawn ==
    /\ Len(redoStack) > 0
    /\ Diagram = HistoryDiagram
    /\ redoStack[Len(redoStack)] # StateOf(nodes, links)

====
